---- MODULE Spec2Model ----
(***************************************************************************)
(* Model of the PlanarStandardMTG backend: the rating engine               *)
(* (calculateEloChange and its helpers), the request handlers that persist *)
(* its results (register, create match, complete match), the public        *)
(* leaderboard, and the Challonge OAuth routes (callback, token).           *)
(*                                                                         *)
(* The database is the pair (users, matches).  Every await of a handler    *)
(* is a point where other requests may run, so a handler is one action per *)
(* database call; a handler's synchronous prefix (authentication hook,     *)
(* format validation) is part of the action of its first database call.    *)
(* A request that is answered by its first action takes no slot of reqs:   *)
(* it leaves its reply in lastReply and nothing else.                      *)
(***************************************************************************)
EXTENDS Integers, Sequences, FiniteSets, Bags, TLC

VARIABLES
    users,      \* table "User": id -> [elo, email, username]
    matches,    \* table "Match": id -> [player1Id, player2Id, winner, ...]
    reqs,       \* the requests being served: slot -> handler position and locals
    lastReply,  \* the reply sent last: [route, status, message]
    clock,      \* the wall clock read by new Date()
    writeLog,   \* history: per match, how many writes of each kind were applied
    eloArgs,    \* rating engine harness: the arguments of a call
    eloResult,  \* rating engine harness: the value returned for eloArgs
    winsArgs,   \* calculateMatchWins harness: the arguments of a call
    winsResult, \* calculateMatchWins harness: the value returned for winsArgs
    connections,\* table "ChallongeConnection": userId -> Null or Some(row)
    chReqs,     \* the Challonge requests being served: slot -> position and locals
    provider,   \* the OAuth provider: [issued, exchanges, refreshes, revokes]
    participantsCache, \* the Map participantsCache: tournament id -> entry
    roster,     \* Challonge's participants of a tournament, and history
    paReqs      \* the tournament requests being served: a bag of locals

harnessVars == <<eloArgs, eloResult, winsArgs, winsResult>>
challongeVars == <<connections, chReqs, provider>>
cacheVars == <<participantsCache, roster, paReqs>>

vars == <<users, matches, reqs, lastReply, clock, writeLog,
          harnessVars, challongeVars, cacheVars>>

-----------------------------------------------------------------------------
(* Nullable columns and optional values: Null or Some(v).                  *)

Null == <<>>
Some(v) == <<v>>
Val(o) == o[1]

Max(a, b) == IF a >= b THEN a ELSE b

-----------------------------------------------------------------------------
(* The rating engine.                                                      *)

K_FACTOR == 32

(* Math.round(K_FACTOR * (1 - getExpectedScore(player, opponent))) depends  *)
(* on diff = opponentElo - playerElo only and never decreases with diff.    *)
(* GainAtLeast[k] is the least diff at which the IEEE-754 evaluation of     *)
(* Math.round(32 * (1 - 1 / (1 + Math.pow(10, diff / 400)))) reaches k.     *)
(* 32 * (1 - expected) stays more than 7e-4 away from every half-integer,   *)
(* so floating-point error does not move a threshold.                       *)
GainAtLeast ==
    << -719, -523, -428, -364, -314, -273, -237, -205,
       -176, -149, -124, -100,  -77,  -54,  -32,  -10,
         11,   33,   55,   78,  101,  125,  150,  177,
        206,  238,  274,  315,  365,  429,  524,  720 >>

(* LossAtLeast[k] is the least diff = opponentElo - playerElo at which      *)
(* Math.round(32 * (0 - 1 / (1 + Math.pow(10, diff / 400)))) reaches        *)
(* -32 + k; it is evaluated independently of GainAtLeast, as the code       *)
(* rounds change1 and change2 independently.                                *)
LossAtLeast ==
    << -719, -523, -428, -364, -314, -273, -237, -205,
       -176, -149, -124, -100,  -77,  -54,  -32,  -10,
         11,   33,   55,   78,  101,  125,  150,  177,
        206,  238,  274,  315,  365,  429,  524,  720 >>

(* Variant of RoundedGain with the rating difference taken the wrong way   *)
(* round.                                                                  *)
RoundedGainReversed(playerElo, opponentElo) ==
    Cardinality({k \in 1..K_FACTOR : playerElo - opponentElo >= GainAtLeast[k]})

(* Math.round(K_FACTOR * (score - expected)) for score = 1.                 *)
RoundedGain(playerElo, opponentElo) ==
    Cardinality({k \in 1..K_FACTOR : opponentElo - playerElo >= GainAtLeast[k]})

(* Variant of RoundedLoss without the subtraction of the expected score's  *)
(* full weight: the count of thresholds alone.                             *)
RoundedLossUnshifted(playerElo, opponentElo) ==
    Cardinality({k \in 1..K_FACTOR : opponentElo - playerElo >= LossAtLeast[k]})

(* Math.round(K_FACTOR * (score - expected)) for score = 0.                 *)
RoundedLoss(playerElo, opponentElo) ==
    Cardinality({k \in 1..K_FACTOR : opponentElo - playerElo >= LossAtLeast[k]})
        - K_FACTOR

(* Variant of RoundedChange that takes the expected score of the opponent. *)
RoundedChangeOfOpponent(playerElo, opponentElo, won) ==
    IF won THEN RoundedGain(opponentElo, playerElo)
           ELSE RoundedLoss(opponentElo, playerElo)

RoundedChange(playerElo, opponentElo, won) ==
    IF won THEN RoundedGain(playerElo, opponentElo)
           ELSE RoundedLoss(playerElo, opponentElo)

(* Variants of calculateEloChange with a slip: no floor at 0; the floor on  *)
(* player 1 only; both players scored as player 1.                         *)
calculateEloChangeNoFloor(player1Elo, player2Elo, player1Won) ==
    LET change1 == RoundedChange(player1Elo, player2Elo, player1Won)
        change2 == RoundedChange(player2Elo, player1Elo, ~player1Won)
    IN  [ player1NewElo |-> player1Elo + change1,
          player2NewElo |-> player2Elo + change2,
          player1Change |-> change1,
          player2Change |-> change2 ]

calculateEloChangeFloorOne(player1Elo, player2Elo, player1Won) ==
    LET change1 == RoundedChange(player1Elo, player2Elo, player1Won)
        change2 == RoundedChange(player2Elo, player1Elo, ~player1Won)
    IN  [ player1NewElo |-> Max(0, player1Elo + change1),
          player2NewElo |-> player2Elo + change2,
          player1Change |-> change1,
          player2Change |-> change2 ]

calculateEloChangeSameScore(player1Elo, player2Elo, player1Won) ==
    LET change1 == RoundedChange(player1Elo, player2Elo, player1Won)
        change2 == RoundedChange(player2Elo, player1Elo, player1Won)
    IN  [ player1NewElo |-> Max(0, player1Elo + change1),
          player2NewElo |-> Max(0, player2Elo + change2),
          player1Change |-> change1,
          player2Change |-> change2 ]

calculateEloChange(player1Elo, player2Elo, player1Won) ==
    LET change1 == RoundedChange(player1Elo, player2Elo, player1Won)
        change2 == RoundedChange(player2Elo, player1Elo, ~player1Won)
    IN  [ player1NewElo |-> Max(0, player1Elo + change1),
          player2NewElo |-> Max(0, player2Elo + change2),
          player1Change |-> change1,
          player2Change |-> change2 ]

(* Variant of calculateMatchWins that counts every decided match.          *)
calculateMatchWinsDecided(matchList, userId) ==
    LET decided(match) == match.winner # Null
    IN  Len(SelectSeq(matchList, decided))

(* matches.filter((match) => match.winner === userId).length; a null       *)
(* winner is not strictly equal to any user id.                            *)
calculateMatchWins(matchList, userId) ==
    LET won(match) == match.winner = Some(userId)
    IN  Len(SelectSeq(matchList, won))

getNewUserElo == 1600

-----------------------------------------------------------------------------
(* Bounds of the model.                                                    *)

MaxRequests == 2    \* requests per behaviour that get past their first checks
MaxUserIds == 3     \* well-formed user ids that requests may name
MaxMatches == 2     \* rows the Match table may hold
MaxLowElo == 40     \* rating engine harness: ratings 0..MaxLowElo, then
MaxStrides == 60    \* MaxStrides further ratings, MaxLowElo + 1 apart
MaxWinsLen == 4     \* calculateMatchWins harness: longest list of matches

(* Identifiers.  The database generates them; the n-th row of a table gets *)
(* the n-th identifier.                                                    *)
UserId(n) == "u" \o ToString(n)
MatchId(n) == "m" \o ToString(n)

KnownUserIds == {UserId(n) : n \in 1..MaxUserIds}
KnownMatchIds == {MatchId(n) : n \in 1..MaxMatches}

(* Request inputs: "not-a-uuid" is a malformed id; an id of a row that the *)
(* table does not hold (yet) is a well-formed unknown id.                  *)
IdInputs == KnownUserIds \cup {"not-a-uuid"}
MatchIdInputs == KnownMatchIds \cup {"not-a-uuid"}

(* The ids the database generates are taken to match the UUID pattern.     *)
isValidUUID(id) == id \in KnownUserIds \cup KnownMatchIds

(* Bearer tokens: none (missing, malformed or expired), or a verified      *)
(* token whose payload has admin = false resp. admin = true.               *)
TokenInputs == {"none", "user", "admin"}

(* Ratings (player 1, player 2) the two seeded users may hold when the     *)
(* behaviour starts: low ratings after a losing streak, the ratings of     *)
(* new users, and an established player against a new one.                 *)
InitElos == {<<8, 8>>, <<getNewUserElo, getNewUserElo>>, <<2000, getNewUserElo>>}

-----------------------------------------------------------------------------
(* Replies and request slots.                                              *)

Reply(status, message) == [status |-> status, message |-> message]
NoReply == Reply(0, "")

Sent(route, reply) ==
    [route |-> route, status |-> reply.status, message |-> reply.message]

NoElo == [player1NewElo |-> 0, player2NewElo |-> 0,
          player1Change |-> 0, player2Change |-> 0]

IdleReq ==
    [ pc |-> "idle", token |-> "", matchId |-> "", winnerId |-> "",
      player1Id |-> "", player2Id |-> "", elo |-> NoElo,
      email |-> "", username |-> "", password |-> "" ]

DoneReq == [IdleReq EXCEPT !.pc = "done"]

Slots == 1..MaxRequests

(* Slots are taken in order: slot r serves the r-th request that gets past *)
(* its first checks.                                                       *)
CanStart(r) ==
    /\ reqs[r].pc = "idle"
    /\ \A s \in Slots : s < r => reqs[s].pc # "idle"

-----------------------------------------------------------------------------
(* plugins/auth.ts                                                         *)

(* Variant of authenticateAdmin without the test of request.user.admin.    *)
authenticateAdminAnyUser(token) ==
    IF token = "none"
    THEN Reply(401, "Invalid or expired token")
    ELSE NoReply

(* The reply the onRequest hook sends, or NoReply when it lets the request *)
(* through to the route handler.  Once a hook has sent a reply, Fastify    *)
(* runs neither the remaining hooks nor the handler.                       *)
authenticateAdmin(token) ==
    IF token = "none"
    THEN Reply(401, "Invalid or expired token")
    ELSE IF token # "admin"
         THEN Reply(403, "Admin privileges required")
         ELSE NoReply

authenticate(token) ==
    IF token = "none"
    THEN Reply(401, "Invalid or expired token")
    ELSE NoReply

NoSent == Sent("", NoReply)

(* The reply of the last step has gone out on the wire.                    *)
Delivered == lastReply = NoSent

HasFreeSlot == \E r \in Slots : CanStart(r)
FreeSlot == CHOOSE r \in Slots : CanStart(r)

-----------------------------------------------------------------------------
(* The database.                                                           *)

(* A row of "Match" as match.create leaves it: the nullable columns null.  *)
NewMatch(player1Id, player2Id) ==
    [ player1Id |-> player1Id, player2Id |-> player2Id,
      winner |-> Null, player1EloChange |-> Null, player2EloChange |-> Null,
      completedAt |-> Null ]

(* "elo" INTEGER NOT NULL DEFAULT 1600 of table "User".                     *)
EloColumnDefault == 1600

(* Variant of NewUser with the conventional chess starting rating.         *)
NewUserElo1500(email, username, password) ==
    [ elo |-> 1500, email |-> email, username |-> username,
      password |-> password ]

(* A row of "User" as user.create leaves it: the handler passes no elo, so *)
(* elo takes the column default.                                           *)
NewUser(email, username, password) ==
    [ elo |-> EloColumnDefault, email |-> email, username |-> username,
      password |-> password ]

(* History of a match: the match.update and user.update statements that   *)
(* took effect for it, and the transactions for it that were rolled back.  *)
NoWrites == [match |-> 0, elo |-> 0, failed |-> 0]

(* The three writes of a completion, in the order of the $transaction      *)
(* array of request q.                                                     *)
CompleteWrites(q, now) ==
    << [ table |-> "match", id |-> q.matchId,
         winner |-> q.winnerId,
         player1EloChange |-> q.elo.player1Change,
         player2EloChange |-> q.elo.player2Change,
         completedAt |-> now ],
       [ table |-> "user", id |-> q.player1Id, elo |-> q.elo.player1NewElo,
         for |-> q.matchId ],
       [ table |-> "user", id |-> q.player2Id, elo |-> q.elo.player2NewElo,
         for |-> q.matchId ] >>

(* Variant of ApplyWrite whose user.update has lost its where clause.      *)
ApplyWriteNoWhere(db, w) ==
    IF w.table = "match"
    THEN [db EXCEPT
            !.matches[w.id].winner = Some(w.winner),
            !.matches[w.id].player1EloChange = Some(w.player1EloChange),
            !.matches[w.id].player2EloChange = Some(w.player2EloChange),
            !.matches[w.id].completedAt = Some(w.completedAt),
            !.log[w.id].match = @ + 1]
    ELSE [db EXCEPT
            !.users = [u \in DOMAIN db.users |-> [db.users[u] EXCEPT !.elo = w.elo]],
            !.log[w.for].elo = @ + 1]

(* Variant of ApplyWrite whose match.update does not set completedAt.     *)
ApplyWriteNoCompletedAt(db, w) ==
    IF w.table = "match"
    THEN [db EXCEPT
            !.matches[w.id].winner = Some(w.winner),
            !.matches[w.id].player1EloChange = Some(w.player1EloChange),
            !.matches[w.id].player2EloChange = Some(w.player2EloChange),
            !.log[w.id].match = @ + 1]
    ELSE [db EXCEPT
            !.users[w.id].elo = w.elo,
            !.log[w.for].elo = @ + 1]

(* One update statement applied to db = [users, matches, log].             *)
ApplyWrite(db, w) ==
    IF w.table = "match"
    THEN [db EXCEPT
            !.matches[w.id].winner = Some(w.winner),
            !.matches[w.id].player1EloChange = Some(w.player1EloChange),
            !.matches[w.id].player2EloChange = Some(w.player2EloChange),
            !.matches[w.id].completedAt = Some(w.completedAt),
            !.log[w.id].match = @ + 1]
    ELSE [db EXCEPT
            !.users[w.id].elo = w.elo,
            !.log[w.for].elo = @ + 1]

RECURSIVE RunWrites(_, _, _)
RunWrites(db, writes, n) ==
    IF n = 0 THEN db
    ELSE ApplyWrite(RunWrites(db, writes, n - 1), writes[n])

(* Variant of WritesApplied without a transaction: the statements before  *)
(* the failing one stay applied.                                           *)
WritesAppliedNoRollback(n, failAt) ==
    IF failAt = 0 THEN n ELSE failAt - 1

(* prisma.$transaction([...]): how many of the n statements take effect    *)
(* when statement failAt fails (failAt = 0: none fails).  A failure rolls  *)
(* the whole transaction back.                                             *)
WritesApplied(n, failAt) ==
    IF failAt = 0 THEN n ELSE 0

-----------------------------------------------------------------------------
(* routes/matches.ts: POST /:matchId/complete                              *)

(* Variants of the handler's checks that let every request through.       *)
AlreadyCompletedUnchecked(match) == FALSE

WinnerIsPlayerUnchecked(winnerId, match) == TRUE

AlreadyCompleted(match) == match.completedAt # Null

WinnerIsPlayer(winnerId, match) ==
    winnerId = match.player1Id \/ winnerId = match.player2Id

(* The reply of the handler's checks up to and including the fetch of the  *)
(* match, or NoReply when the request goes on to the rating computation.   *)
CompleteMatchRejection(token, matchId, winnerId, dbOk) ==
    IF authenticateAdmin(token) # NoReply THEN authenticateAdmin(token)
    ELSE IF ~isValidUUID(matchId) THEN Reply(400, "Invalid match ID format")
    ELSE IF winnerId = "" THEN Reply(400, "Winner ID is required")
    ELSE IF ~isValidUUID(winnerId) THEN Reply(400, "Invalid winner ID format")
    ELSE IF ~dbOk THEN Reply(500, "Failed to complete match")
    ELSE IF matchId \notin DOMAIN matches THEN Reply(404, "Match not found")
    ELSE IF AlreadyCompleted(matches[matchId])
         THEN Reply(400, "Match already completed")
    ELSE IF ~WinnerIsPlayer(winnerId, matches[matchId])
         THEN Reply(400, "Winner must be one of the match players")
    ELSE NoReply

(* Hook, validation, prisma.match.findUnique with both players, checks and *)
(* calculateEloChange on the fetched ratings.                              *)
CompleteMatchFetch(token, matchId, winnerId, dbOk) ==
    /\ Delivered
    /\ LET rej == CompleteMatchRejection(token, matchId, winnerId, dbOk)
       IN  IF rej # NoReply
           THEN /\ lastReply' = Sent("complete", rej)
                /\ UNCHANGED reqs
           ELSE LET match == matches[matchId]
                    player1Won == winnerId = match.player1Id
                    res == calculateEloChange(users[match.player1Id].elo,
                                              users[match.player2Id].elo,
                                              player1Won)
                IN  /\ HasFreeSlot
                    /\ reqs' = [reqs EXCEPT ![FreeSlot] =
                          [IdleReq EXCEPT !.pc = "transaction",
                                          !.token = token,
                                          !.matchId = matchId,
                                          !.winnerId = winnerId,
                                          !.player1Id = match.player1Id,
                                          !.player2Id = match.player2Id,
                                          !.elo = res]]
                    /\ UNCHANGED lastReply
    /\ UNCHANGED <<users, matches, clock, writeLog, harnessVars, challongeVars, cacheVars>>

(* await prisma.$transaction([match.update, user.update, user.update])     *)
CompleteMatchTransaction(r, failAt) ==
    /\ Delivered
    /\ reqs[r].pc = "transaction"
    /\ LET q == reqs[r]
           writes == CompleteWrites(q, clock)
           db == RunWrites([users |-> users, matches |-> matches, log |-> writeLog],
                           writes, WritesApplied(Len(writes), failAt))
       IN  /\ users' = db.users
           /\ matches' = db.matches
           /\ writeLog' = IF failAt = 0 THEN db.log
                          ELSE [db.log EXCEPT ![q.matchId].failed = @ + 1]
           /\ IF failAt = 0
              THEN /\ reqs' = [reqs EXCEPT ![r] =
                                 [IdleReq EXCEPT !.pc = "finalFetch",
                                                 !.token = q.token,
                                                 !.matchId = q.matchId]]
                   /\ UNCHANGED lastReply
              ELSE /\ reqs' = [reqs EXCEPT ![r] = DoneReq]
                   /\ lastReply' =
                        Sent("complete", Reply(500, "Failed to complete match"))
    /\ clock' = clock + 1
    /\ UNCHANGED <<harnessVars, challongeVars, cacheVars>>

(* The fetch of the updated match and the 200 reply.                       *)
CompleteMatchFinalFetch(r, dbOk) ==
    /\ Delivered
    /\ reqs[r].pc = "finalFetch"
    /\ reqs' = [reqs EXCEPT ![r] = DoneReq]
    /\ lastReply' = Sent("complete",
                         IF dbOk THEN Reply(200, "OK")
                                 ELSE Reply(500, "Failed to complete match"))
    /\ UNCHANGED <<users, matches, clock, writeLog, harnessVars, challongeVars, cacheVars>>

-----------------------------------------------------------------------------
(* routes/matches.ts: POST / (create match)                                *)

(* Variant of CreateMatchRejection without the self-match check.          *)
CreateMatchRejectionNoSelfCheck(token, player1Id, player2Id, dbOk) ==
    IF authenticateAdmin(token) # NoReply THEN authenticateAdmin(token)
    ELSE IF player1Id = "" \/ player2Id = ""
         THEN Reply(400, "Both player IDs are required")
    ELSE IF ~isValidUUID(player1Id) THEN Reply(400, "Invalid player 1 ID format")
    ELSE IF ~isValidUUID(player2Id) THEN Reply(400, "Invalid player 2 ID format")
    ELSE IF ~dbOk THEN Reply(500, "Failed to create match")
    ELSE IF player1Id \notin DOMAIN users THEN Reply(404, "Player 1 not found")
    ELSE IF player2Id \notin DOMAIN users THEN Reply(404, "Player 2 not found")
    ELSE NoReply

CreateMatchRejection(token, player1Id, player2Id, dbOk) ==
    IF authenticateAdmin(token) # NoReply THEN authenticateAdmin(token)
    ELSE IF player1Id = "" \/ player2Id = ""
         THEN Reply(400, "Both player IDs are required")
    ELSE IF ~isValidUUID(player1Id) THEN Reply(400, "Invalid player 1 ID format")
    ELSE IF ~isValidUUID(player2Id) THEN Reply(400, "Invalid player 2 ID format")
    ELSE IF player1Id = player2Id
         THEN Reply(400, "Cannot create match against yourself")
    ELSE IF ~dbOk THEN Reply(500, "Failed to create match")
    ELSE IF player1Id \notin DOMAIN users THEN Reply(404, "Player 1 not found")
    ELSE IF player2Id \notin DOMAIN users THEN Reply(404, "Player 2 not found")
    ELSE NoReply

(* Rows of "Match" once every create in flight has inserted its row.       *)
MatchRowsAfterPending ==
    Cardinality(DOMAIN matches) + Cardinality({s \in Slots : reqs[s].pc = "create"})

(* Hook, validation and the two prisma.user.findUnique lookups.            *)
CreateMatchLookup(token, player1Id, player2Id, dbOk) ==
    /\ Delivered
    /\ LET rej == CreateMatchRejection(token, player1Id, player2Id, dbOk)
       IN  IF rej # NoReply
           THEN /\ lastReply' = Sent("create", rej)
                /\ UNCHANGED reqs
           ELSE /\ HasFreeSlot
                /\ MatchRowsAfterPending < MaxMatches
                /\ reqs' = [reqs EXCEPT ![FreeSlot] =
                      [IdleReq EXCEPT !.pc = "create",
                                      !.token = token,
                                      !.player1Id = player1Id,
                                      !.player2Id = player2Id]]
                /\ UNCHANGED lastReply
    /\ UNCHANGED <<users, matches, clock, writeLog, harnessVars, challongeVars, cacheVars>>

(* await prisma.match.create(...) and the 201 reply.                       *)
CreateMatchInsert(r, dbOk) ==
    /\ Delivered
    /\ reqs[r].pc = "create"
    /\ LET id == MatchId(Cardinality(DOMAIN matches) + 1)
           q == reqs[r]
       IN  IF dbOk
           THEN /\ matches' = [m \in DOMAIN matches \cup {id} |->
                                 IF m = id THEN NewMatch(q.player1Id, q.player2Id)
                                           ELSE matches[m]]
                /\ writeLog' = [m \in DOMAIN matches \cup {id} |->
                                 IF m = id THEN NoWrites ELSE writeLog[m]]
                /\ lastReply' = Sent("create", Reply(201, "Created"))
           ELSE /\ lastReply' = Sent("create", Reply(500, "Failed to create match"))
                /\ UNCHANGED <<matches, writeLog>>
    /\ reqs' = [reqs EXCEPT ![r] = DoneReq]
    /\ UNCHANGED <<users, clock, harnessVars, challongeVars, cacheVars>>

(* routes/matches.ts: GET /:matchId                                        *)
GetMatch(token, matchId, dbOk) ==
    /\ Delivered
    /\ lastReply' = Sent("get",
           IF authenticate(token) # NoReply THEN authenticate(token)
           ELSE IF ~isValidUUID(matchId) THEN Reply(400, "Invalid match ID format")
           ELSE IF ~dbOk THEN Reply(500, "Failed to fetch match")
           ELSE IF matchId \notin DOMAIN matches THEN Reply(404, "Match not found")
           ELSE Reply(200, "OK"))
    /\ UNCHANGED <<users, matches, reqs, clock, writeLog, harnessVars, challongeVars, cacheVars>>

-----------------------------------------------------------------------------
(* routes/auth.ts                                                          *)

EmailInputs == {"nope", "p1@x.io", "P1@x.io", "p3@x.io"}
UsernameInputs == {"x", "p1", "p3"}
PasswordInputs == {"weak", "h1", "h2"}

isValidEmail(email) == email \in {"p1@x.io", "P1@x.io", "p3@x.io"}
isValidUsername(username) == username \in {"p1", "p3"}
isValidPasswordHash(hash) == hash \in {"h1", "h2"}

(* email.toLowerCase().trim(); a valid email holds no white space.         *)
NormalizeEmail(email) == IF email = "P1@x.io" THEN "p1@x.io" ELSE email

(* username.trim(); a valid username holds no white space.                 *)
NormalizeUsername(username) == username

(* prisma.user.findFirst({ where: { OR: [{ email }, { username }] } })     *)
ExistingUser(email, username) ==
    \E u \in DOMAIN users :
        users[u].email = email \/ users[u].username = username

RegisterRejection(email, username, passwordHash, dbOk) ==
    IF email = "" \/ username = "" \/ passwordHash = ""
    THEN Reply(400, "Email, username, and password are required")
    ELSE IF ~isValidEmail(email) THEN Reply(400, "Invalid email format")
    ELSE IF ~isValidUsername(username) THEN Reply(400, "Invalid username format")
    ELSE IF ~isValidPasswordHash(passwordHash)
         THEN Reply(400, "Invalid password hash format")
    ELSE IF ~dbOk THEN Reply(500, "An error occurred during registration")
    ELSE IF ExistingUser(NormalizeEmail(email), NormalizeUsername(username))
         THEN Reply(409, "Email or username already exists")
    ELSE NoReply

(* POST /register: validation and the existing-user check.                 *)
RegisterCheck(email, username, passwordHash, dbOk) ==
    /\ Delivered
    /\ LET rej == RegisterRejection(email, username, passwordHash, dbOk)
       IN  IF rej # NoReply
           THEN /\ lastReply' = Sent("register", rej)
                /\ UNCHANGED reqs
           ELSE /\ HasFreeSlot
                /\ reqs' = [reqs EXCEPT ![FreeSlot] =
                      [IdleReq EXCEPT !.pc = "register",
                                      !.email = NormalizeEmail(email),
                                      !.username = NormalizeUsername(username),
                                      !.password = passwordHash]]
                /\ UNCHANGED lastReply
    /\ UNCHANGED <<users, matches, clock, writeLog, harnessVars, challongeVars, cacheVars>>

(* POST /register: bcrypt.hash, prisma.user.create and the 201 reply.  The *)
(* unique indexes on email and username make the insert fail when either   *)
(* is taken.                                                               *)
RegisterCreate(r, dbOk) ==
    /\ Delivered
    /\ reqs[r].pc = "register"
    /\ LET q == reqs[r]
           id == UserId(Cardinality(DOMAIN users) + 1)
       IN  IF dbOk /\ ~ExistingUser(q.email, q.username)
           THEN /\ users' = [u \in DOMAIN users \cup {id} |->
                               IF u = id THEN NewUser(q.email, q.username, q.password)
                                         ELSE users[u]]
                /\ lastReply' = Sent("register", Reply(201, "Created"))
           ELSE /\ lastReply' = Sent("register",
                       Reply(500, "An error occurred during registration"))
                /\ UNCHANGED users
    /\ reqs' = [reqs EXCEPT ![r] = DoneReq]
    /\ UNCHANGED <<matches, clock, writeLog, harnessVars, challongeVars, cacheVars>>

(* POST /login                                                             *)
Login(email, passwordHash, dbOk) ==
    /\ Delivered
    /\ lastReply' = Sent("login",
           IF email = "" \/ passwordHash = ""
           THEN Reply(400, "Email and password are required")
           ELSE IF ~isValidEmail(email) THEN Reply(400, "Invalid email format")
           ELSE IF ~isValidPasswordHash(passwordHash)
                THEN Reply(400, "Invalid password hash format")
           ELSE IF ~dbOk THEN Reply(500, "An error occurred during login")
           ELSE IF \E u \in DOMAIN users :
                       /\ users[u].email = NormalizeEmail(email)
                       /\ users[u].password = passwordHash
                THEN Reply(200, "OK")
           ELSE Reply(401, "Invalid credentials"))
    /\ UNCHANGED <<users, matches, reqs, clock, writeLog, harnessVars, challongeVars, cacheVars>>

-----------------------------------------------------------------------------
(* api/routes/matches.ts: POST /matches/:matchId/complete, the handler of  *)
(* the serverless entry point.  Any authenticated player of the match may  *)
(* complete it, and the three updates are separate statements.             *)

(* The reply of the hook and of the checks after the fetch of the match,   *)
(* or NoReply when the request goes on to the updates.  The token is none  *)
(* or the sub of a verified token.                                         *)
ApiCompleteRejection(token, matchId, winnerId, dbOk) ==
    IF authenticate(token) # NoReply THEN authenticate(token)
    ELSE IF ~dbOk THEN Reply(500, "Failed to complete match")
    ELSE IF matchId \notin DOMAIN matches THEN Reply(404, "Match not found")
    ELSE IF token \notin {matches[matchId].player1Id, matches[matchId].player2Id}
         THEN Reply(403, "Unauthorized to complete this match")
    ELSE IF matches[matchId].completedAt # Null
         THEN Reply(400, "Match already completed")
    ELSE IF winnerId \notin {matches[matchId].player1Id, matches[matchId].player2Id}
         THEN Reply(400, "Winner must be one of the match players")
    ELSE NoReply

(* Hook, prisma.match.findUnique with both players, checks and             *)
(* calculateEloChange on the fetched ratings.                              *)
ApiCompleteFetch(token, matchId, winnerId, dbOk) ==
    /\ Delivered
    /\ LET rej == ApiCompleteRejection(token, matchId, winnerId, dbOk)
       IN  IF rej # NoReply
           THEN /\ lastReply' = Sent("apiComplete", rej)
                /\ UNCHANGED reqs
           ELSE LET match == matches[matchId]
                    res == calculateEloChange(users[match.player1Id].elo,
                                              users[match.player2Id].elo,
                                              winnerId = match.player1Id)
                IN  /\ HasFreeSlot
                    /\ reqs' = [reqs EXCEPT ![FreeSlot] =
                          [IdleReq EXCEPT !.pc = "apiMatchUpdate",
                                          !.token = token,
                                          !.matchId = matchId,
                                          !.winnerId = winnerId,
                                          !.player1Id = match.player1Id,
                                          !.player2Id = match.player2Id,
                                          !.elo = res]]
                    /\ UNCHANGED lastReply
    /\ UNCHANGED <<users, matches, clock, writeLog, harnessVars, challongeVars, cacheVars>>

(* await prisma.match.update(...)                                          *)
ApiCompleteMatchUpdate(r, dbOk) ==
    /\ Delivered
    /\ reqs[r].pc = "apiMatchUpdate"
    /\ LET q == reqs[r]
           db == ApplyWrite([users |-> users, matches |-> matches, log |-> writeLog],
                            CompleteWrites(q, clock)[1])
       IN  IF dbOk
           THEN /\ matches' = db.matches
                /\ writeLog' = db.log
                /\ reqs' = [reqs EXCEPT ![r].pc = "apiUserUpdates"]
                /\ UNCHANGED lastReply
           ELSE /\ writeLog' = [writeLog EXCEPT ![q.matchId].failed = @ + 1]
                /\ reqs' = [reqs EXCEPT ![r] = DoneReq]
                /\ lastReply' =
                      Sent("apiComplete", Reply(500, "Failed to complete match"))
                /\ UNCHANGED matches
    /\ clock' = clock + 1
    /\ UNCHANGED <<users, harnessVars, challongeVars, cacheVars>>

(* await Promise.all([user.update, user.update]): each statement takes     *)
(* effect or fails on its own; a failure of either rejects the await.      *)
ApiCompleteUserUpdates(r, ok1, ok2) ==
    /\ Delivered
    /\ reqs[r].pc = "apiUserUpdates"
    /\ LET q == reqs[r]
           writes == CompleteWrites(q, clock)
           db0 == [users |-> users, matches |-> matches, log |-> writeLog]
           db1 == IF ok1 THEN ApplyWrite(db0, writes[2]) ELSE db0
           db2 == IF ok2 THEN ApplyWrite(db1, writes[3]) ELSE db1
       IN  /\ users' = db2.users
           /\ IF ok1 /\ ok2
              THEN /\ writeLog' = db2.log
                   /\ reqs' = [reqs EXCEPT ![r].pc = "apiFinalFetch"]
                   /\ UNCHANGED lastReply
              ELSE /\ writeLog' = [db2.log EXCEPT ![q.matchId].failed = @ + 1]
                   /\ reqs' = [reqs EXCEPT ![r] = DoneReq]
                   /\ lastReply' =
                         Sent("apiComplete", Reply(500, "Failed to complete match"))
    /\ UNCHANGED <<matches, clock, harnessVars, challongeVars, cacheVars>>

(* The fetch of the updated match and the 200 reply.                       *)
ApiCompleteFinalFetch(r, dbOk) ==
    /\ Delivered
    /\ reqs[r].pc = "apiFinalFetch"
    /\ reqs' = [reqs EXCEPT ![r] = DoneReq]
    /\ lastReply' = Sent("apiComplete",
                         IF dbOk THEN Reply(200, "OK")
                                 ELSE Reply(500, "Failed to complete match"))
    /\ UNCHANGED <<users, matches, clock, writeLog, harnessVars, challongeVars, cacheVars>>

-----------------------------------------------------------------------------
(* routes/leaderboard.ts: GET /                                            *)

(* Math.min(Number(limit), 100)                                            *)
LimitCap == 100

Min(a, b) == IF a <= b THEN a ELSE b

(* Query parameters after Number(): Null is NaN.                           *)
LeaderboardRejection(page, limit) ==
    IF page = Null \/ Val(page) < 1
    THEN Reply(400, "Page must be a positive number")
    ELSE IF limit = Null \/ Min(Val(limit), LimitCap) < 1
    THEN Reply(400, "Limit must be between 1 and 100")
    ELSE NoReply

(* where: { OR: [{matchesAsPlayer1: {some: {}}}, {matchesAsPlayer2:        *)
(* {some: {}}}] }: the users that have a row in "Match", completed or not. *)
UsersWithMatches ==
    {u \in DOMAIN users :
        \E m \in DOMAIN matches :
            matches[m].player1Id = u \/ matches[m].player2Id = u}

(* orderBy: { elo: "desc" }: the orders in which the database may return   *)
(* the selected users; it is free in the order of users of equal rating.   *)
EloDescOrders(ids) ==
    {order \in [1..Cardinality(ids) -> ids] :
        /\ \A i, j \in DOMAIN order : i < j => order[i] # order[j]
        /\ \A i, j \in DOMAIN order :
              i < j => users[order[i]].elo >= users[order[j]].elo}

(* One entry of the leaderboard: the nested selects keep the matches whose *)
(* winner is not null.                                                     *)
LeaderboardEntry(u) ==
    LET matchesAsPlayer1 == {m \in DOMAIN matches :
                               matches[m].player1Id = u /\ matches[m].winner # Null}
        matchesAsPlayer2 == {m \in DOMAIN matches :
                               matches[m].player2Id = u /\ matches[m].winner # Null}
        winsAsPlayer1 == Cardinality({m \in matchesAsPlayer1 :
                                        matches[m].winner = Some(u)})
        winsAsPlayer2 == Cardinality({m \in matchesAsPlayer2 :
                                        matches[m].winner = Some(u)})
    IN  [ id |-> u, elo |-> users[u].elo,
          winsAsPlayer1 |-> winsAsPlayer1, winsAsPlayer2 |-> winsAsPlayer2,
          totalWins |-> winsAsPlayer1 + winsAsPlayer2,
          totalMatches |-> Cardinality(matchesAsPlayer1)
                              + Cardinality(matchesAsPlayer2) ]

(* skip: (pageNum - 1) * limitNum, take: limitNum                          *)
LeaderboardPage(order, page, limit) ==
    LET skip == (page - 1) * limit
    IN  [i \in 1..Max(0, Min(limit, Len(order) - skip)) |->
            LeaderboardEntry(order[skip + i])]

SentLeaderboard(entries) ==
    [ route |-> "leaderboard", status |-> 200, message |-> "",
      leaderboard |-> entries ]

(* The whole handler: it only reads.  The reply's pagination block (a      *)
(* second read, user.count) is not kept.                                   *)
GetLeaderboard(page, limit, dbOk) ==
    /\ Delivered
    /\ IF LeaderboardRejection(page, limit) # NoReply
       THEN lastReply' = Sent("leaderboard", LeaderboardRejection(page, limit))
       ELSE IF ~dbOk
       THEN lastReply' = Sent("leaderboard", Reply(500, "Failed to fetch leaderboard"))
       ELSE \E order \in EloDescOrders(UsersWithMatches) :
               lastReply' = SentLeaderboard(
                   LeaderboardPage(order, Val(page), Min(Val(limit), LimitCap)))
    /\ UNCHANGED <<users, matches, reqs, clock, writeLog, harnessVars, challongeVars, cacheVars>>

-----------------------------------------------------------------------------
(* routes/challonge.ts: the OAuth connection to the tournament provider.   *)

MaxChRequests == 1  \* Challonge requests per behaviour that reach the provider
MaxClock == 3       \* minutes the clock may advance to

ChSlots == 1..MaxChRequests

(* Date.now() + 5 * 60 * 1000, with time counted in minutes.                *)
RefreshMargin == 5

(* expires_in of the tokens the provider issues, in minutes: a token that  *)
(* is within the refresh margin from the start and expires while the       *)
(* clock runs, and one that comes within the margin while the clock runs.  *)
ExpiresInInputs == {2, 7}

(* A row of "ChallongeConnection".  The n-th token pair the provider       *)
(* issues is (n, n); expiresAt is a time in minutes.                       *)
Connection(accessToken, refreshToken, expiresAt) ==
    [ accessToken |-> accessToken, refreshToken |-> refreshToken,
      expiresAt |-> expiresAt ]

NoConnection == Connection(0, 0, 0)

ChIdleReq ==
    [ pc |-> "idle", route |-> "", sub |-> "", stateUserId |-> "",
      connection |-> NoConnection, tokenData |-> NoConnection, revoke |-> "" ]

ChDoneReq == [ChIdleReq EXCEPT !.pc = "done"]

ChCanStart(r) ==
    /\ chReqs[r].pc = "idle"
    /\ \A q \in ChSlots : q < r => chReqs[q].pc # "idle"

ChHasFreeSlot == \E r \in ChSlots : ChCanStart(r)
ChFreeSlot == CHOOSE r \in ChSlots : ChCanStart(r)

(* The provider has issued no token and has not been contacted.            *)
NoProvider == [issued |-> 0, exchanges |-> 0, refreshes |-> 0, revokes |-> 0]

(* Bearer tokens of the Challonge routes: none, or a verified token whose  *)
(* payload has sub = the user id.                                          *)
ChTokenInputs == {"none"} \cup KnownUserIds

(* The state parameter of a callback.  /connect issues                     *)
(* base64(JSON.stringify({userId, timestamp})); a request may also carry   *)
(* no state, text that is not JSON, the JSON value null, or a JSON object  *)
(* without userId.                                                         *)
ConnectState(userId) == [kind |-> "object", userId |-> userId]

StateInputs ==
    {ConnectState(u) : u \in {UserId(1), UserId(2)}}
        \cup {[kind |-> k, userId |-> ""] :
                 k \in {"undefined", "garbage", "null", "object"}}

(* JSON.parse(Buffer.from(state, 'base64').toString()).userId: Null when   *)
(* the expression throws (Buffer.from(undefined), JSON.parse of text that  *)
(* is not JSON, property access on null), else the userId read, which is   *)
(* "" (undefined) for an object without userId.                            *)
DecodeStateUserId(state) ==
    IF state.kind = "object" THEN Some(state.userId) ELSE Null

(* The replies of the Challonge routes that carry a token.                 *)
SentToken(connection) ==
    [ route |-> "token", status |-> 200, message |-> "",
      accessToken |-> connection.accessToken,
      expiresAt |-> connection.expiresAt ]

(* What the provider returns for a successful token request made at the    *)
(* time now: the next token pair, or the next access token alone when a    *)
(* refresh does not rotate the refresh token.                              *)
IssuedTokens(now, expiresIn, withRefreshToken) ==
    Connection(provider.issued + 1,
               IF withRefreshToken THEN provider.issued + 1 ELSE 0,
               now + expiresIn)

(* POST /callback.                                                         *)

(* Variant of CallbackRejection that does not compare the state's userId   *)
(* with the caller.                                                        *)
CallbackRejectionAnyState(token, hasBody, code, state) ==
    IF authenticate(token) # NoReply THEN authenticate(token)
    ELSE IF ~hasBody THEN Reply(500, "Failed to complete OAuth flow")
    ELSE IF code = "" THEN Reply(400, "Authorization code is required")
    ELSE IF DecodeStateUserId(state) = Null
         THEN Reply(400, "Invalid state parameter")
    ELSE NoReply

(* The reply of the hook and of the handler's checks before the token      *)
(* exchange, or NoReply when the request goes on to the exchange.          *)
CallbackRejection(token, hasBody, code, state) ==
    IF authenticate(token) # NoReply THEN authenticate(token)
    ELSE IF ~hasBody THEN Reply(500, "Failed to complete OAuth flow")
    ELSE IF code = "" THEN Reply(400, "Authorization code is required")
    ELSE IF DecodeStateUserId(state) = Null
         THEN Reply(400, "Invalid state parameter")
    ELSE IF Val(DecodeStateUserId(state)) # token
         THEN Reply(403, "State mismatch - invalid user")
    ELSE NoReply

CallbackStart(token, hasBody, code, state) ==
    /\ Delivered
    /\ LET rej == CallbackRejection(token, hasBody, code, state)
       IN  IF rej # NoReply
           THEN /\ lastReply' = Sent("callback", rej)
                /\ UNCHANGED chReqs
           ELSE /\ ChHasFreeSlot
                /\ chReqs' = [chReqs EXCEPT ![ChFreeSlot] =
                      [ChIdleReq EXCEPT !.pc = "exchange",
                                        !.route = "callback",
                                        !.sub = token,
                                        !.stateUserId = state.userId]]
                /\ UNCHANGED lastReply
    /\ UNCHANGED <<users, matches, reqs, clock, writeLog, harnessVars,
                   connections, provider, cacheVars>>

(* await fetch(tokenUrl, grant_type=authorization_code): the provider      *)
(* accepts the code ("ok"), refuses it ("notOk") or cannot be reached      *)
(* ("throws").  expiresAt is computed when the answer has arrived; the     *)
(* look-up of the Challonge username that follows changes no state kept    *)
(* here.                                                                   *)
CallbackExchange(r, outcome, expiresIn) ==
    /\ Delivered
    /\ chReqs[r].pc = "exchange"
    /\ provider' = [provider EXCEPT
                      !.exchanges = @ + 1,
                      !.issued = IF outcome = "ok" THEN @ + 1 ELSE @]
    /\ IF outcome = "ok"
       THEN /\ chReqs' = [chReqs EXCEPT
                            ![r].pc = "store",
                            ![r].tokenData = IssuedTokens(clock, expiresIn, TRUE)]
            /\ UNCHANGED lastReply
       ELSE /\ chReqs' = [chReqs EXCEPT ![r] = ChDoneReq]
            /\ lastReply' = Sent("callback",
                   IF outcome = "notOk"
                   THEN Reply(400, "Failed to exchange authorization code")
                   ELSE Reply(500, "Failed to complete OAuth flow"))
    /\ UNCHANGED <<users, matches, reqs, clock, writeLog, harnessVars,
                   connections, cacheVars>>

(* await prisma.user.findUnique, await prisma.challongeConnection.upsert   *)
(* and the 200 reply.                                                      *)
CallbackStore(r, dbOk) ==
    /\ Delivered
    /\ chReqs[r].pc = "store"
    /\ LET q == chReqs[r]
       IN  IF ~dbOk
           THEN /\ lastReply' = Sent("callback",
                                     Reply(500, "Failed to complete OAuth flow"))
                /\ UNCHANGED connections
           ELSE IF q.sub \notin DOMAIN users
           THEN /\ lastReply' = Sent("callback",
                       Reply(404, "User account not found. Please log in again."))
                /\ UNCHANGED connections
           ELSE /\ connections' = [connections EXCEPT ![q.sub] = Some(q.tokenData)]
                /\ lastReply' = Sent("callback", Reply(200, "connected"))
    /\ chReqs' = [chReqs EXCEPT ![r] = ChDoneReq]
    /\ UNCHANGED <<users, matches, reqs, clock, writeLog, harnessVars, provider, cacheVars>>

(* GET /token.                                                             *)

(* connection.expiresAt <= expiryThreshold                                 *)
NeedsRefresh(connection, now) ==
    connection.expiresAt <= now + RefreshMargin

(* The hook, await prisma.challongeConnection.findUnique and the test of   *)
(* the expiry: a token that is not about to expire is returned as stored,  *)
(* any other goes on to the provider.                                      *)
TokenFetch(token, dbOk) ==
    /\ Delivered
    /\ IF authenticate(token) # NoReply
       THEN /\ lastReply' = Sent("token", authenticate(token))
            /\ UNCHANGED chReqs
       ELSE IF ~dbOk
       THEN /\ lastReply' = Sent("token", Reply(500, "Failed to get access token"))
            /\ UNCHANGED chReqs
       ELSE IF connections[token] = Null
       THEN /\ lastReply' = Sent("token", Reply(404, "No Challonge connection found"))
            /\ UNCHANGED chReqs
       ELSE IF ~NeedsRefresh(Val(connections[token]), clock)
       THEN /\ lastReply' = SentToken(Val(connections[token]))
            /\ UNCHANGED chReqs
       ELSE /\ ChHasFreeSlot
            /\ chReqs' = [chReqs EXCEPT ![ChFreeSlot] =
                  [ChIdleReq EXCEPT !.pc = "refresh",
                                    !.route = "token",
                                    !.sub = token,
                                    !.connection = Val(connections[token])]]
            /\ UNCHANGED lastReply
    /\ UNCHANGED <<users, matches, reqs, clock, writeLog, harnessVars,
                   connections, provider, cacheVars>>

(* await fetch(tokenUrl, grant_type=refresh_token).  When the provider     *)
(* refuses ("notOk") the handler skips the update and replies with the     *)
(* connection it read.                                                     *)
TokenRefresh(r, outcome, expiresIn, withRefreshToken) ==
    /\ Delivered
    /\ chReqs[r].pc = "refresh"
    /\ provider' = [provider EXCEPT
                      !.refreshes = @ + 1,
                      !.issued = IF outcome = "ok" THEN @ + 1 ELSE @]
    /\ IF outcome = "ok"
       THEN /\ chReqs' = [chReqs EXCEPT
                            ![r].pc = "update",
                            ![r].tokenData =
                                IssuedTokens(clock, expiresIn, withRefreshToken)]
            /\ UNCHANGED lastReply
       ELSE /\ chReqs' = [chReqs EXCEPT ![r] = ChDoneReq]
            /\ lastReply' =
                  IF outcome = "notOk"
                  THEN SentToken(chReqs[r].connection)
                  ELSE Sent("token", Reply(500, "Failed to get access token"))
    /\ UNCHANGED <<users, matches, reqs, clock, writeLog, harnessVars,
                   connections, cacheVars>>

(* await prisma.challongeConnection.update and the 200 reply with the      *)
(* updated row; refreshToken is written only when the provider sent one.   *)
(* The update throws when the row is gone.                                 *)
TokenUpdate(r, dbOk) ==
    /\ Delivered
    /\ chReqs[r].pc = "update"
    /\ LET q == chReqs[r]
       IN  IF ~dbOk \/ connections[q.sub] = Null
           THEN /\ lastReply' = Sent("token", Reply(500, "Failed to get access token"))
                /\ UNCHANGED connections
           ELSE LET row == Connection(q.tokenData.accessToken,
                                      IF q.tokenData.refreshToken # 0
                                      THEN q.tokenData.refreshToken
                                      ELSE Val(connections[q.sub]).refreshToken,
                                      q.tokenData.expiresAt)
                IN  /\ connections' = [connections EXCEPT ![q.sub] = Some(row)]
                    /\ lastReply' = SentToken(row)
    /\ chReqs' = [chReqs EXCEPT ![r] = ChDoneReq]
    /\ UNCHANGED <<users, matches, reqs, clock, writeLog, harnessVars, provider, cacheVars>>

(* Time passes.                                                            *)
(* routes/dashboard.ts: GET /status and DELETE /disconnect                  *)

SentStatus(connected, isExpired) ==
    [ route |-> "status", status |-> 200, message |-> "",
      connected |-> connected, isExpired |-> isExpired ]

(* What /status sends to the authenticated user userId when it reads the    *)
(* table conns at the time now.                                             *)
StatusReply(userId, conns, now) ==
    IF conns[userId] = Null
    THEN SentStatus(FALSE, FALSE)
    ELSE SentStatus(TRUE, now >= Val(conns[userId]).expiresAt)

(* The whole /status handler: the hook, one read, the reply.                *)
Status(token, dbOk) ==
    /\ Delivered
    /\ lastReply' =
          IF authenticate(token) # NoReply
          THEN Sent("status", authenticate(token))
          ELSE IF ~dbOk
          THEN Sent("status", Reply(500, "Failed to check connection status"))
          ELSE StatusReply(token, connections, clock)
    /\ UNCHANGED <<users, matches, reqs, clock, writeLog, harnessVars,
                   challongeVars, cacheVars>>

(* What /disconnect answers before it calls the revoke endpoint.            *)
DisconnectRejection(token, dbOk) ==
    IF authenticate(token) # NoReply THEN authenticate(token)
    ELSE IF ~dbOk THEN Reply(500, "Failed to disconnect")
    ELSE IF connections[token] = Null
    THEN Reply(404, "No Challonge connection found")
    ELSE NoReply

(* The hook and await prisma.challongeConnection.findUnique.                *)
DisconnectFetch(token, dbOk) ==
    /\ Delivered
    /\ IF DisconnectRejection(token, dbOk) # NoReply
       THEN /\ lastReply' = Sent("disconnect", DisconnectRejection(token, dbOk))
            /\ UNCHANGED chReqs
       ELSE /\ ChHasFreeSlot
            /\ chReqs' = [chReqs EXCEPT ![ChFreeSlot] =
                  [ChIdleReq EXCEPT !.pc = "revoke",
                                    !.route = "disconnect",
                                    !.sub = token,
                                    !.connection = Val(connections[token])]]
            /\ UNCHANGED lastReply
    /\ UNCHANGED <<users, matches, reqs, clock, writeLog, harnessVars,
                   connections, provider, cacheVars>>

RevokeOutcomes == {"ok", "notOk", "throws"}

(* Variant of RevokeContinues in which only an accepted revocation lets the *)
(* handler go on.                                                           *)
RevokeContinuesIfOk(outcome) == outcome = "ok"

(* Whether the handler goes on to the delete after the revoke call: the     *)
(* response is not looked at and a thrown error is caught and logged.       *)
RevokeContinues(outcome) == outcome \in RevokeOutcomes

(* await fetch('https://api.challonge.com/oauth/revoke') in its own try.    *)
DisconnectRevoke(r, outcome) ==
    /\ Delivered
    /\ chReqs[r].pc = "revoke"
    /\ provider' = [provider EXCEPT !.revokes = @ + 1]
    /\ IF RevokeContinues(outcome)
       THEN /\ chReqs' = [chReqs EXCEPT ![r].pc = "delete",
                                        ![r].revoke = outcome]
            /\ UNCHANGED lastReply
       ELSE /\ chReqs' = [chReqs EXCEPT ![r] = ChDoneReq]
            /\ lastReply' = Sent("disconnect", Reply(500, "Failed to disconnect"))
    /\ UNCHANGED <<users, matches, reqs, clock, writeLog, harnessVars,
                   connections, cacheVars>>

(* await prisma.challongeConnection.delete and the reply.  The delete       *)
(* throws when the database fails or the row is no longer there.            *)
DisconnectDelete(r, dbOk) ==
    /\ Delivered
    /\ chReqs[r].pc = "delete"
    /\ LET q == chReqs[r]
       IN  IF dbOk /\ connections[q.sub] # Null
           THEN /\ connections' = [connections EXCEPT ![q.sub] = Null]
                /\ chReqs' = [chReqs EXCEPT ![r] =
                                [ChDoneReq EXCEPT !.route = q.route,
                                                  !.sub = q.sub,
                                                  !.revoke = q.revoke]]
                /\ lastReply' = Sent("disconnect",
                                     Reply(200, "Challonge connection removed"))
           ELSE /\ chReqs' = [chReqs EXCEPT ![r] = ChDoneReq]
                /\ lastReply' = Sent("disconnect", Reply(500, "Failed to disconnect"))
                /\ UNCHANGED connections
    /\ UNCHANGED <<users, matches, reqs, clock, writeLog, harnessVars,
                   provider, cacheVars>>

Tick ==
    /\ Delivered
    /\ clock < MaxClock
    /\ clock' = clock + 1
    /\ UNCHANGED <<users, matches, reqs, lastReply, writeLog, harnessVars,
                   challongeVars, cacheVars>>

-----------------------------------------------------------------------------
(* routes/dashboard.ts: the participants cache and the tournament routes    *)
(* that use it.  One clock unit is one minute.                              *)

MaxPaRequests == 2  \* tournament requests in flight at the same time
MaxRosterVersion == 1 \* joins and leaves that Challonge accepts per behaviour

CACHE_TTL == 5

TournamentIds == {"t1"}
ChallongeUsernames == {"c1"}

(* The participants Challonge holds for a tournament.  version counts the   *)
(* joins and leaves accepted so far; invalidated is the version produced by *)
(* the latest join or leave whose invalidateParticipantsCache has run;      *)
(* expired counts the cache entries a lookup has deleted as too old.        *)
NoRoster == [members |-> {}, version |-> 0, invalidated |-> 0, expired |-> 0]

(* The body of a participants response: the members at the time Challonge   *)
(* answered (version tells the answers apart).                              *)
Participants(t) == [members |-> roster[t].members, version |-> roster[t].version]

CacheEntry(data, timestamp) == [data |-> data, timestamp |-> timestamp]

PaIdleReq ==
    [ pc |-> "idle", route |-> "", tournamentId |-> "", username |-> "",
      participants |-> Null, version |-> 0 ]

(* The requests in flight are told apart by their locals only.             *)
PaInFlight == BagToSet(paReqs)
PaHasFreeSlot == BagCardinality(paReqs) < MaxPaRequests

(* Variant of isExpired that lets an entry live one clock unit longer.      *)
isExpiredLate(cached, now) == now - cached.timestamp > CACHE_TTL + 1

(* const isExpired = Date.now() - cached.timestamp > CACHE_TTL              *)
isExpired(cached, now) == now - cached.timestamp > CACHE_TTL

(* getCachedParticipants: the value returned and the Map afterwards.        *)
getCachedParticipants(cache, tournamentId, now) ==
    IF cache[tournamentId] = Null
    THEN [result |-> Null, cache |-> cache]
    ELSE IF isExpired(Val(cache[tournamentId]), now)
    THEN [result |-> Null, cache |-> [cache EXCEPT ![tournamentId] = Null]]
    ELSE [result |-> Some(Val(cache[tournamentId]).data), cache |-> cache]

setCachedParticipants(cache, tournamentId, data, now) ==
    [cache EXCEPT ![tournamentId] = Some(CacheEntry(data, now))]

invalidateParticipantsCache(cache, tournamentId) ==
    [cache EXCEPT ![tournamentId] = Null]

(* What the three routes answer before they look the participants up: the  *)
(* authenticate hook, the tournament row (join and leave) and the caller's  *)
(* challongeUsername (Null: no connection).                                 *)
TournamentRejection(route, token, tournamentId, username) ==
    IF authenticate(token) # NoReply THEN authenticate(token)
    ELSE IF tournamentId \notin TournamentIds
    THEN Reply(404, "Tournament not found")
    ELSE IF route = "join" /\ username = Null
    THEN Reply(403, "You must connect your Challonge account before joining tournaments")
    ELSE IF route = "leave" /\ username = Null
    THEN Reply(403, "You must have a Challonge account connected")
    ELSE NoReply

IsParticipant(participants, username) ==
    participants # Null /\ username \in Val(participants).members

(* The handler's code after fetchTournamentParticipants has returned        *)
(* participants to the request q: the reply it sends at once, or NoReply    *)
(* when it goes on to call Challonge.                                       *)
AfterParticipants(q, participants) ==
    IF q.route = "detail" THEN Reply(200, "OK")
    ELSE IF q.route = "join"
    THEN IF IsParticipant(participants, q.username)
         THEN Reply(400, "You are already a participant in this tournament")
         ELSE NoReply
    ELSE IF participants = Null
         THEN Reply(500, "Failed to fetch tournament participants")
         ELSE IF ~IsParticipant(participants, q.username)
         THEN Reply(404, "You are not a participant in this tournament")
         ELSE NoReply

(* The request q, the others in flight being others, has its participants: *)
(* reply or go on.                                                          *)
Continue(others, q, participants) ==
    LET answer == AfterParticipants(q, participants)
    IN  IF answer # NoReply
        THEN /\ paReqs' = others
             /\ lastReply' = Sent(q.route, answer)
        ELSE /\ paReqs' = others (+) SetToBag({[q EXCEPT !.pc = "change",
                                                         !.participants = Null]})
             /\ UNCHANGED lastReply

(* A request arrives and runs up to the participants request to Challonge:  *)
(* its checks, then getCachedParticipants.  A request without a             *)
(* challongeUsername on the detail route never looks the participants up.   *)
TournamentStart(route, token, tournamentId, username) ==
    /\ Delivered
    /\ LET rejection == TournamentRejection(route, token, tournamentId, username)
       IN  IF rejection # NoReply
           THEN /\ lastReply' = Sent(route, rejection)
                /\ UNCHANGED <<paReqs, participantsCache, roster>>
           ELSE IF username = Null
           THEN /\ lastReply' = Sent(route, Reply(200, "OK"))
                /\ UNCHANGED <<paReqs, participantsCache, roster>>
           ELSE /\ PaHasFreeSlot
                /\ LET q == [PaIdleReq EXCEPT !.route = route,
                                              !.tournamentId = tournamentId,
                                              !.username = Val(username)]
                       got == getCachedParticipants(participantsCache,
                                                    tournamentId, clock)
                   IN  /\ participantsCache' = got.cache
                       /\ roster' = IF got.cache = participantsCache THEN roster
                                    ELSE [roster EXCEPT
                                            ![tournamentId].expired = @ + 1]
                       /\ IF got.result # Null
                          THEN Continue(paReqs, q, got.result)
                          ELSE /\ paReqs' = paReqs (+) SetToBag(
                                               {[q EXCEPT !.pc = "fetch"]})
                               /\ UNCHANGED lastReply
    /\ UNCHANGED <<users, matches, reqs, clock, writeLog, harnessVars,
                   challongeVars>>

(* Challonge answers the participants request: not OK or a thrown error     *)
(* give null; an OK response carries the participants of that moment.       *)
ParticipantsResponse(q, ok) ==
    /\ Delivered
    /\ q.pc = "fetch"
    /\ LET others == paReqs (-) SetToBag({q})
       IN  IF ok
           THEN /\ paReqs' = others (+) SetToBag(
                     {[q EXCEPT !.pc = "store",
                                !.participants =
                                    Some(Participants(q.tournamentId))]})
                /\ UNCHANGED lastReply
           ELSE Continue(others, q, Null)
    /\ UNCHANGED <<users, matches, reqs, clock, writeLog, harnessVars,
                   challongeVars, participantsCache, roster>>

(* After await participantsResponse.json(): setCachedParticipants and the   *)
(* return of the list to the handler.                                       *)
ParticipantsStore(q) ==
    /\ Delivered
    /\ q.pc = "store"
    /\ participantsCache' =
          setCachedParticipants(participantsCache, q.tournamentId,
                                Val(q.participants), clock)
    /\ Continue(paReqs (-) SetToBag({q}), q, q.participants)
    /\ UNCHANGED <<users, matches, reqs, clock, writeLog, harnessVars,
                   challongeVars, roster>>

(* Challonge answers the POST (join) or DELETE (leave) of the participant.  *)
ParticipantChange(q, ok) ==
    /\ Delivered
    /\ q.pc = "change"
    /\ LET others == paReqs (-) SetToBag({q})
           t == q.tournamentId
       IN  IF ok
           THEN /\ roster[t].version < MaxRosterVersion
                /\ roster' = [roster EXCEPT
                     ![t].members = IF q.route = "join" THEN @ \cup {q.username}
                                                        ELSE @ \ {q.username},
                     ![t].version = @ + 1]
                /\ paReqs' = others (+) SetToBag(
                                {[q EXCEPT !.pc = "invalidate",
                                           !.version = roster[t].version + 1]})
                /\ UNCHANGED lastReply
           ELSE /\ paReqs' = others
                /\ lastReply' = Sent(q.route,
                                     Reply(422, IF q.route = "join"
                                                THEN "Failed to join tournament"
                                                ELSE "Failed to leave tournament"))
                /\ UNCHANGED roster
    /\ UNCHANGED <<users, matches, reqs, clock, writeLog, harnessVars,
                   challongeVars, participantsCache>>

(* invalidateParticipantsCache, the update of the tournament row and the    *)
(* reply.  The tournament table itself is not kept.                         *)
ParticipantInvalidate(q, dbOk) ==
    /\ Delivered
    /\ q.pc = "invalidate"
    /\ LET t == q.tournamentId
       IN  /\ participantsCache' =
                 invalidateParticipantsCache(participantsCache, t)
           /\ roster' = [roster EXCEPT ![t].invalidated =
                            Max(@, q.version)]
           /\ paReqs' = paReqs (-) SetToBag({q})
           /\ lastReply' = Sent(q.route,
                 IF dbOk THEN Reply(200, "OK")
                 ELSE Reply(500, IF q.route = "join"
                                 THEN "Failed to join tournament"
                                 ELSE "Failed to leave tournament"))
    /\ UNCHANGED <<users, matches, reqs, clock, writeLog, harnessVars,
                   challongeVars>>

-----------------------------------------------------------------------------
(* Parts of the state that a specification leaves alone.                   *)

(* No call of a pure function is being examined.                           *)
NoHarness ==
    /\ eloArgs = Null
    /\ eloResult = Null
    /\ winsArgs = Null
    /\ winsResult = Null

(* No user has connected a Challonge account and no Challonge route is     *)
(* being served.                                                           *)
NoChallonge ==
    /\ connections = [u \in KnownUserIds |-> Null]
    /\ chReqs = [r \in ChSlots |-> ChIdleReq]
    /\ provider = NoProvider

(* No participants are cached and no tournament route is being served.     *)
NoCache ==
    /\ participantsCache = [t \in TournamentIds |-> Null]
    /\ roster = [t \in TournamentIds |-> NoRoster]
    /\ paReqs = EmptyBag

(* Empty tables and no request: the state of the pure-function harnesses.  *)
NoServer ==
    /\ users = << >>
    /\ matches = << >>
    /\ writeLog = << >>
    /\ reqs = [r \in Slots |-> IdleReq]
    /\ lastReply = NoSent
    /\ clock = 1

-----------------------------------------------------------------------------
(* The server.                                                             *)

(* Two registered users with ratings from InitElos and one open match      *)
(* between them; no request has arrived.                                   *)
Init ==
    /\ \E e \in InitElos :
          users = [u \in {UserId(1), UserId(2)} |->
                     IF u = UserId(1)
                     THEN [NewUser("p1@x.io", "p1", "h1") EXCEPT !.elo = e[1]]
                     ELSE [NewUser("p2@x.io", "p2", "h1") EXCEPT !.elo = e[2]]]
    /\ matches = [m \in {MatchId(1)} |-> NewMatch(UserId(1), UserId(2))]
    /\ writeLog = [m \in {MatchId(1)} |-> NoWrites]
    /\ reqs = [r \in Slots |-> IdleReq]
    /\ lastReply = NoSent
    /\ clock = 1
    /\ NoHarness
    /\ NoChallonge
    /\ NoCache

(* A reply leaves the server before the event loop runs the next step.     *)
DeliverReply ==
    /\ ~Delivered
    /\ lastReply' = NoSent
    /\ UNCHANGED <<users, matches, reqs, clock, writeLog, harnessVars, challongeVars, cacheVars>>

(* The requests sent to each endpoint: every combination of inputs for a   *)
(* verified admin token (resp. well-formed body) with a working database,  *)
(* and one request for each way of failing before the inputs are read.     *)
CompleteRequests ==
    {<<"admin", m, w, TRUE>> : m \in MatchIdInputs, w \in IdInputs}
        \cup {<<"none", MatchId(1), UserId(1), TRUE>>,
              <<"user", MatchId(1), UserId(1), TRUE>>,
              <<"admin", MatchId(1), UserId(1), FALSE>>}

CreateRequests ==
    {<<"admin", p1, p2, TRUE>> : p1 \in IdInputs, p2 \in IdInputs}
        \cup {<<"none", UserId(1), UserId(2), TRUE>>,
              <<"user", UserId(1), UserId(2), TRUE>>,
              <<"admin", UserId(1), UserId(2), FALSE>>}

GetRequests ==
    {<<"user", m, TRUE>> : m \in MatchIdInputs}
        \cup {<<"none", MatchId(1), TRUE>>, <<"user", MatchId(1), FALSE>>}

RegisterRequests ==
    {<<e, n, "h1", TRUE>> : e \in EmailInputs, n \in UsernameInputs}
        \cup {<<"p3@x.io", "p3", "weak", TRUE>>, <<"p3@x.io", "p3", "h1", FALSE>>}

LoginRequests ==
    {<<e, h, TRUE>> : e \in EmailInputs, h \in PasswordInputs}
        \cup {<<"p1@x.io", "h1", FALSE>>}

(* Leaderboard requests: the defaults (page 1, limit 50), the second page  *)
(* of pages of one, and the rejected or failing ones.                      *)
LeaderboardRequests ==
    { <<Some(1), Some(50), TRUE>>, <<Some(2), Some(1), TRUE>>,
      <<Some(0), Some(50), TRUE>>, <<Null, Some(50), TRUE>>,
      <<Some(1), Some(0), TRUE>>, <<Some(1), Null, TRUE>>,
      <<Some(1), Some(50), FALSE>> }

Next ==
    \/ \E q \in CompleteRequests : CompleteMatchFetch(q[1], q[2], q[3], q[4])
    \/ \E r \in Slots, failAt \in 0..3 : CompleteMatchTransaction(r, failAt)
    \/ \E r \in Slots, dbOk \in BOOLEAN : CompleteMatchFinalFetch(r, dbOk)
    \/ \E q \in CreateRequests : CreateMatchLookup(q[1], q[2], q[3], q[4])
    \/ \E r \in Slots, dbOk \in BOOLEAN : CreateMatchInsert(r, dbOk)
    \/ \E q \in GetRequests : GetMatch(q[1], q[2], q[3])
    \/ \E q \in RegisterRequests : RegisterCheck(q[1], q[2], q[3], q[4])
    \/ \E r \in Slots, dbOk \in BOOLEAN : RegisterCreate(r, dbOk)
    \/ \E q \in LoginRequests : Login(q[1], q[2], q[3])
    \/ \E q \in LeaderboardRequests : GetLeaderboard(q[1], q[2], q[3])
    \/ DeliverReply

Spec == Init /\ [][Next]_vars

-----------------------------------------------------------------------------
(* The rating engine on its own: calculateEloChange applied to arguments   *)
(* drawn from EloSamples.  The differences of two samples cover every      *)
(* integer from -(MaxLowElo + 1) * MaxStrides to (MaxLowElo + 1) *          *)
(* MaxStrides.                                                             *)

EloSamples ==
    (0..MaxLowElo)
        \cup {k * (MaxLowElo + 1) : k \in 1..MaxStrides}
        \cup {getNewUserElo, 2000}

InitElo ==
    /\ NoServer
    /\ NoChallonge
    /\ NoCache
    /\ eloArgs \in [player1Elo : EloSamples, player2Elo : EloSamples,
                    player1Won : BOOLEAN]
    /\ eloResult = Null
    /\ winsArgs = Null
    /\ winsResult = Null

EloCall ==
    /\ eloResult = Null
    /\ eloResult' = Some(calculateEloChange(eloArgs.player1Elo,
                                            eloArgs.player2Elo,
                                            eloArgs.player1Won))
    /\ UNCHANGED <<users, matches, reqs, lastReply, clock, writeLog, eloArgs,
                   winsArgs, winsResult, challongeVars, cacheVars>>

NextElo == EloCall

SpecElo == InitElo /\ [][NextElo]_vars

-----------------------------------------------------------------------------
(* calculateMatchWins on its own: one call with arguments drawn from the   *)
(* lists of at most MaxWinsLen matches between two users, each undecided   *)
(* or won by either, and a user id that may also be a third user's.        *)

WinsEntries ==
    { [ winner |-> w, player1Id |-> UserId(1), player2Id |-> UserId(2) ] :
        w \in {Null, Some(UserId(1)), Some(UserId(2))} }

WinsLists == UNION { [1..n -> WinsEntries] : n \in 0..MaxWinsLen }

InitWins ==
    /\ NoServer
    /\ NoChallonge
    /\ NoCache
    /\ eloArgs = Null
    /\ eloResult = Null
    /\ winsArgs \in [matches : WinsLists, userId : KnownUserIds]
    /\ winsResult = Null

WinsCall ==
    /\ winsResult = Null
    /\ winsResult' = Some(calculateMatchWins(winsArgs.matches, winsArgs.userId))
    /\ UNCHANGED <<users, matches, reqs, lastReply, clock, writeLog, eloArgs,
                   eloResult, winsArgs, challongeVars, cacheVars>>

NextWins == WinsCall

SpecWins == InitWins /\ [][NextWins]_vars

-----------------------------------------------------------------------------
(* The server as deployed from api/: the same database, with matches       *)
(* completed through the handler of api/routes/matches.ts.                 *)

ApiCompleteRequests ==
    {<<t, m, w, TRUE>> : t \in {UserId(1), UserId(2)}, m \in KnownMatchIds,
                         w \in KnownUserIds}
        \cup {<<"none", MatchId(1), UserId(1), TRUE>>,
              <<UserId(3), MatchId(1), UserId(1), TRUE>>,
              <<UserId(1), MatchId(1), UserId(1), FALSE>>}

NextApi ==
    \/ \E q \in ApiCompleteRequests : ApiCompleteFetch(q[1], q[2], q[3], q[4])
    \/ \E r \in Slots, dbOk \in BOOLEAN : ApiCompleteMatchUpdate(r, dbOk)
    \/ \E r \in Slots, ok1 \in BOOLEAN, ok2 \in BOOLEAN :
          ApiCompleteUserUpdates(r, ok1, ok2)
    \/ \E r \in Slots, dbOk \in BOOLEAN : ApiCompleteFinalFetch(r, dbOk)
    \/ DeliverReply

SpecApi == Init /\ [][NextApi]_vars

-----------------------------------------------------------------------------
(* Completions of two open matches that share a player: three new users,   *)
(* match 1 between users 1 and 2, match 2 between users 1 and 3.           *)

InitSharedPlayer ==
    /\ users = [u \in KnownUserIds |-> NewUser(u \o "@x.io", u, "h1")]
    /\ matches = [m \in {MatchId(1), MatchId(2)} |->
                    IF m = MatchId(1) THEN NewMatch(UserId(1), UserId(2))
                                      ELSE NewMatch(UserId(1), UserId(3))]
    /\ writeLog = [m \in {MatchId(1), MatchId(2)} |-> NoWrites]
    /\ reqs = [r \in Slots |-> IdleReq]
    /\ lastReply = NoSent
    /\ clock = 1
    /\ NoHarness
    /\ NoChallonge
    /\ NoCache

NextSharedPlayer ==
    \/ \E q \in CompleteRequests : CompleteMatchFetch(q[1], q[2], q[3], q[4])
    \/ \E r \in Slots, failAt \in 0..3 : CompleteMatchTransaction(r, failAt)
    \/ \E r \in Slots, dbOk \in BOOLEAN : CompleteMatchFinalFetch(r, dbOk)
    \/ DeliverReply

SpecSharedPlayer == InitSharedPlayer /\ [][NextSharedPlayer]_vars

-----------------------------------------------------------------------------
(* The Challonge routes on their own: the two registered users, the first  *)
(* of whom has connected a Challonge account before the behaviour starts.  *)

InitChallonge ==
    /\ users = [u \in {UserId(1), UserId(2)} |->
                  IF u = UserId(1) THEN NewUser("p1@x.io", "p1", "h1")
                                   ELSE NewUser("p2@x.io", "p2", "h1")]
    /\ matches = << >>
    /\ writeLog = << >>
    /\ reqs = [r \in Slots |-> IdleReq]
    /\ lastReply = NoSent
    /\ clock = 1
    /\ NoHarness
    /\ NoCache
    /\ \E expiresIn \in ExpiresInInputs :
          connections = [u \in KnownUserIds |->
                           IF u = UserId(1)
                           THEN Some(Connection(1, 1, clock - 1 + expiresIn))
                           ELSE Null]
    /\ chReqs = [r \in ChSlots |-> ChIdleReq]
    /\ provider = [NoProvider EXCEPT !.issued = 1, !.exchanges = 1]

CallbackRequests ==
    {<<t, TRUE, "code", st>> : t \in {UserId(1), UserId(2)}, st \in StateInputs}
        \cup {<<UserId(2), TRUE, "", st>> : st \in StateInputs}
        \cup {<<"none", TRUE, "code", ConnectState(UserId(1))>>,
              <<UserId(2), FALSE, "", ConnectState(UserId(2))>>,
              <<UserId(3), TRUE, "code", ConnectState(UserId(3))>>}

TokenRequests ==
    {<<t, TRUE>> : t \in ChTokenInputs} \cup {<<UserId(1), FALSE>>}

(* The answers of the provider to a token exchange: outcome and           *)
(* expires_in; to a refresh: also whether it rotates the refresh token.    *)
ExchangeAnswers ==
    {<<"ok", e>> : e \in ExpiresInInputs} \cup {<<"notOk", 0>>, <<"throws", 0>>}

RefreshAnswers ==
    {<<"ok", e, w>> : e \in ExpiresInInputs, w \in BOOLEAN}
        \cup {<<"notOk", 0, FALSE>>, <<"throws", 0, FALSE>>}

NextChallonge ==
    \/ \E q \in CallbackRequests : CallbackStart(q[1], q[2], q[3], q[4])
    \/ \E r \in ChSlots, a \in ExchangeAnswers :
          CallbackExchange(r, a[1], a[2])
    \/ \E r \in ChSlots, dbOk \in BOOLEAN : CallbackStore(r, dbOk)
    \/ \E q \in TokenRequests : TokenFetch(q[1], q[2])
    \/ \E r \in ChSlots, a \in RefreshAnswers :
          TokenRefresh(r, a[1], a[2], a[3])
    \/ \E r \in ChSlots, dbOk \in BOOLEAN : TokenUpdate(r, dbOk)
    \/ Tick
    \/ DeliverReply

SpecChallonge == InitChallonge /\ [][NextChallonge]_vars

(* The Challonge routes together with /status and /disconnect.              *)
DisconnectRequests ==
    {<<t, TRUE>> : t \in {"none", UserId(1), UserId(2)}}
        \cup {<<UserId(1), FALSE>>}

NextDisconnect ==
    \/ \E q \in DisconnectRequests : DisconnectFetch(q[1], q[2])
    \/ \E r \in ChSlots, outcome \in RevokeOutcomes : DisconnectRevoke(r, outcome)
    \/ \E r \in ChSlots, dbOk \in BOOLEAN : DisconnectDelete(r, dbOk)
    \/ \E q \in DisconnectRequests : Status(q[1], q[2])
    \/ \E q \in CallbackRequests : CallbackStart(q[1], q[2], q[3], q[4])
    \/ \E r \in ChSlots, a \in ExchangeAnswers :
          CallbackExchange(r, a[1], a[2])
    \/ \E r \in ChSlots, dbOk \in BOOLEAN : CallbackStore(r, dbOk)
    \/ Tick
    \/ DeliverReply

SpecDisconnect == InitChallonge /\ [][NextDisconnect]_vars

-----------------------------------------------------------------------------
(* The tournament routes on one tournament, which starts without           *)
(* participants or with the one user in it.  The cache starts empty or with *)
(* the participants stored at StoredAt, before the behaviour starts.        *)

StoredAt == {1 - CACHE_TTL, 2 - CACHE_TTL, 1}

InitCache ==
    /\ NoServer
    /\ NoHarness
    /\ NoChallonge
    /\ \E members \in SUBSET ChallongeUsernames :
          roster = [t \in TournamentIds |-> [NoRoster EXCEPT !.members = members]]
    /\ paReqs = EmptyBag
    /\ participantsCache \in
          {[t \in TournamentIds |-> Null]}
             \cup {[t \in TournamentIds |->
                      Some(CacheEntry(Participants(t), at))] : at \in StoredAt}

TournamentRequests ==
    {<<route, "user", "t1", Some(c)>> :
        route \in {"detail", "join", "leave"}, c \in ChallongeUsernames}
        \cup {<<"join", "none", "t1", Some("c1")>>,
              <<"leave", "user", "t9", Some("c1")>>,
              <<"join", "user", "t1", Null>>,
              <<"leave", "user", "t1", Null>>,
              <<"detail", "user", "t1", Null>>}

NextCache ==
    \/ \E q \in TournamentRequests : TournamentStart(q[1], q[2], q[3], q[4])
    \/ \E q \in PaInFlight, ok \in BOOLEAN : ParticipantsResponse(q, ok)
    \/ \E q \in PaInFlight : ParticipantsStore(q)
    \/ \E q \in PaInFlight, ok \in BOOLEAN : ParticipantChange(q, ok)
    \/ \E q \in PaInFlight, dbOk \in BOOLEAN : ParticipantInvalidate(q, dbOk)
    \/ Tick
    \/ DeliverReply

SpecCache == InitCache /\ [][NextCache]_vars

-----------------------------------------------------------------------------
(* Properties.                                                             *)

Completed(m) == matches[m].completedAt # Null

Players(m) == {matches[m].player1Id, matches[m].player2Id}

RECURSIVE SumElo(_, _)
SumElo(table, ids) ==
    IF ids = {} THEN 0
    ELSE LET u == CHOOSE x \in ids : TRUE
         IN  table[u].elo + SumElo(table, ids \ {u})

TotalElo(table) == SumElo(table, DOMAIN table)

(* C1: the rating adjustment of a match is applied at most once: at most   *)
(* one completion transaction of a match ever takes effect.                *)
C1_AppliedAtMostOnce ==
    \A m \in DOMAIN matches : writeLog[m].match <= 1

(* C2: the three writes of a completion are all applied or none is: per    *)
(* match there are two rating writes for each match write, also after a    *)
(* write of a transaction failed, and a match is completed exactly when    *)
(* its writes were applied.                                                *)
C2_CompletionAtomic ==
    \A m \in DOMAIN matches :
        /\ writeLog[m].elo = 2 * writeLog[m].match
        /\ Completed(m) <=> writeLog[m].match > 0
        /\ Completed(m) <=> writeLog[m].elo > 0

C2_RolledBack ==
    \E m \in DOMAIN matches :
        /\ writeLog[m].failed > 0
        /\ ~Completed(m)
        /\ writeLog[m].match = 0 /\ writeLog[m].elo = 0

(* C3: a complete request for a match whose completedAt is set is answered *)
(* 400 "Match already completed", no request reaches the rating update for *)
(* a match it fetched as completed, and the step that sends this reply     *)
(* changes no match and no rating.                                         *)
C3_CompletedMatchRejected ==
    [][ /\ \A m \in DOMAIN matches, w \in KnownUserIds :
              Completed(m) =>
                 CompleteMatchRejection("admin", m, w, TRUE)
                    = Reply(400, "Match already completed")
        /\ \A r \in Slots :
              (reqs[r].pc # "transaction" /\ reqs'[r].pc = "transaction")
                 => ~Completed(reqs'[r].matchId)
        /\ (lastReply' # lastReply
              /\ lastReply' = Sent("complete", Reply(400, "Match already completed")))
             => /\ UNCHANGED <<users, matches, writeLog, reqs>>
                /\ \E m \in DOMAIN matches : Completed(m)
      ]_vars

C3_RejectedAsCompleted ==
    lastReply = Sent("complete", Reply(400, "Match already completed"))

(* C4: every stored rating is an integer >= 0.                             *)
C4_EloNonNegative ==
    \A u \in DOMAIN users : users[u].elo \in Nat

C4_FloorReached ==
    \E m \in DOMAIN matches :
        /\ Completed(m)
        /\ \E u \in Players(m) : users[u].elo = 0

(* C5: calculateEloChange returns new ratings max(0, rating + change) for  *)
(* both players and applies no upper bound: when rating + change >= 0 the  *)
(* new rating is rating + change.                                          *)
C5_NewEloIsFlooredSum ==
    eloResult # Null =>
        LET res == Val(eloResult)
            sum1 == eloArgs.player1Elo + res.player1Change
            sum2 == eloArgs.player2Elo + res.player2Change
        IN  /\ res.player1NewElo = (IF sum1 >= 0 THEN sum1 ELSE 0)
            /\ res.player2NewElo = (IF sum2 >= 0 THEN sum2 ELSE 0)

C5_FlooredAndExact ==
    /\ eloResult # Null
    /\ eloArgs.player2Elo + Val(eloResult).player2Change < 0
    /\ Val(eloResult).player2NewElo = 0
    /\ Val(eloResult).player1NewElo
          = eloArgs.player1Elo + Val(eloResult).player1Change

(* C6: the two changes returned by calculateEloChange sum to -1, 0 or 1.   *)
C6_ChangesSumNearZero ==
    eloResult # Null =>
        Val(eloResult).player1Change + Val(eloResult).player2Change
            \in {-1, 0, 1}

C6_UnequalRatingsChanged ==
    /\ eloResult # Null
    /\ eloArgs.player1Elo > eloArgs.player2Elo + 400
    /\ ~eloArgs.player1Won
    /\ Val(eloResult).player2Change > K_FACTOR \div 2

(* C7: completing matches leaves the total of the stored ratings           *)
(* unchanged: a step that creates no user does not change the sum.         *)
C7_TotalEloConstant ==
    [][DOMAIN users' = DOMAIN users => TotalElo(users') = TotalElo(users)]_vars

(* C8: a stored rating changes only in the step that commits the           *)
(* completion of a match in which the user is player1 or player2.          *)
C8_EloFrame ==
    [][ \A u \in DOMAIN users :
           users'[u].elo # users[u].elo =>
              \E r \in Slots :
                 /\ reqs[r].pc = "transaction"
                 /\ reqs'[r].pc = "finalFetch"
                 /\ u \in Players(reqs[r].matchId)
      ]_vars

C8_BystanderUnchanged ==
    /\ UserId(3) \in DOMAIN users
    /\ \E m \in DOMAIN matches :
          /\ Completed(m)
          /\ UserId(3) \notin Players(m)
          /\ \E u \in Players(m) : users[u].elo # getNewUserElo
    /\ users[UserId(3)].elo = getNewUserElo

(* C9: a complete request whose winnerId is none of the two players of an  *)
(* open match is answered 400 and changes nothing, and the winner of every *)
(* completed match is one of its players.                                  *)
C9_WinnerIsPlayer ==
    [][ /\ \A m \in DOMAIN matches :
              matches[m].winner # Null => Val(matches[m].winner) \in Players(m)
        /\ \A m \in DOMAIN matches : \A w \in KnownUserIds \ Players(m) :
              ~Completed(m) =>
                 CompleteMatchRejection("admin", m, w, TRUE)
                    = Reply(400, "Winner must be one of the match players")
        /\ (lastReply' # lastReply
              /\ lastReply' = Sent("complete",
                     Reply(400, "Winner must be one of the match players")))
             => UNCHANGED <<users, matches, writeLog, reqs>>
      ]_vars

C9_RejectedWinner ==
    /\ lastReply = Sent("complete",
                        Reply(400, "Winner must be one of the match players"))
    /\ \E m \in DOMAIN matches : Completed(m)
    /\ \E m \in DOMAIN matches : ~Completed(m)

(* C10: a create request with player1Id = player2Id is answered 400, one   *)
(* naming an unknown player 404, neither creates a match, and every match  *)
(* has two distinct participants that are existing users.                  *)
C10_DistinctExistingPlayers ==
    [][ /\ \A m \in DOMAIN matches :
              /\ matches[m].player1Id # matches[m].player2Id
              /\ Players(m) \subseteq DOMAIN users
        /\ \A p \in KnownUserIds :
              CreateMatchRejection("admin", p, p, TRUE)
                 = Reply(400, "Cannot create match against yourself")
        /\ \A p1 \in KnownUserIds, p2 \in KnownUserIds :
              (p1 # p2 /\ ~({p1, p2} \subseteq DOMAIN users)) =>
                 CreateMatchRejection("admin", p1, p2, TRUE).status = 404
        /\ (lastReply' # lastReply /\ lastReply'.route = "create"
              /\ lastReply'.status \in {400, 404})
             => UNCHANGED <<users, matches, writeLog, reqs>>
      ]_vars

C10_RejectedSelfMatch ==
    /\ lastReply = Sent("create", Reply(400, "Cannot create match against yourself"))
    /\ MatchId(2) \in DOMAIN matches

(* C11: the four completion columns of a match are set together: winner,  *)
(* player1EloChange, player2EloChange and completedAt are all null or all  *)
(* non-null, in every state the server reaches.                            *)
C11_CompletionColumnsTogether ==
    \A m \in DOMAIN matches :
        LET unset == << matches[m].winner = Null,
                        matches[m].player1EloChange = Null,
                        matches[m].player2EloChange = Null,
                        matches[m].completedAt = Null >>
        IN  (\A i \in 1..4 : unset[i]) \/ (\A i \in 1..4 : ~unset[i])

C11_OneOpenOneCompleted ==
    /\ \E m \in DOMAIN matches :
          /\ writeLog[m].match > 0
          /\ matches[m].winner # Null /\ matches[m].completedAt # Null
          /\ matches[m].player1EloChange # Null
          /\ matches[m].player2EloChange # Null
    /\ \E m \in DOMAIN matches :
          matches[m].winner = Null /\ matches[m].completedAt = Null

C13_ReferenceResults ==
    eloResult # Null =>
        LET a == eloArgs.player1Elo
            b == eloArgs.player2Elo
            won == eloArgs.player1Won
            res == Val(eloResult)
        IN  /\ (a = b /\ a >= 16) =>
                  /\ res.player1Change = (IF won THEN 16 ELSE -16)
                  /\ res.player2Change = (IF won THEN -16 ELSE 16)
                  /\ res.player1NewElo = a + res.player1Change
                  /\ res.player2NewElo = b + res.player2Change
            /\ (a = 1600 /\ b = 1600 /\ won) =>
                  res.player1NewElo = 1616 /\ res.player2NewElo = 1584
            /\ (a = 2000 /\ b = 1600 /\ ~won) =>
                  res = [ player1NewElo |-> 1971, player2NewElo |-> 1629,
                          player1Change |-> -29, player2Change |-> 29 ]

C13_FavouriteLost ==
    /\ eloResult # Null
    /\ eloArgs = [player1Elo |-> 2000, player2Elo |-> 1600, player1Won |-> FALSE]
    /\ Val(eloResult).player1NewElo = 1971
    /\ Val(eloResult).player2NewElo = 1629

(* C14, as stated: for a fixed loser rating and winner ratings W1 < W2,    *)
(* the change the winner receives at W2 is strictly smaller than the one   *)
(* received at W1.                                                         *)
C14_WinnerChangeStrictlyDecreasing ==
    (eloResult # Null /\ eloArgs.player1Won) =>
        \A W2 \in EloSamples :
            W2 > eloArgs.player1Elo =>
                calculateEloChange(W2, eloArgs.player2Elo, TRUE).player1Change
                    < Val(eloResult).player1Change

(* C14, amended: for a fixed loser rating and winner ratings W1 < W2, the  *)
(* change the winner receives at W2 is never larger than the one received  *)
(* at W1 (rounding to integers makes neighbouring ratings share a change), *)
(* and it is strictly smaller once W2 exceeds W1 by more than 196, the     *)
(* widest plateau of the rounded change.                                   *)
C14_WinnerChangeNonIncreasing ==
    (eloResult # Null /\ eloArgs.player1Won) =>
        \A W2 \in EloSamples :
            W2 > eloArgs.player1Elo =>
                LET atW2 == calculateEloChange(W2, eloArgs.player2Elo, TRUE)
                    atW1 == Val(eloResult)
                IN  /\ atW2.player1Change <= atW1.player1Change
                    /\ atW1.player1Change >= 0
                    /\ (W2 - eloArgs.player1Elo > 196
                           /\ atW1.player1Change > 0
                           /\ atW2.player1Change < K_FACTOR)
                          => atW2.player1Change < atW1.player1Change

C14_SameChangeAtNeighbours ==
    /\ eloResult # Null
    /\ eloArgs = [player1Elo |-> 1599, player2Elo |-> 1600, player1Won |-> TRUE]
    /\ Val(eloResult).player1Change
          = calculateEloChange(1600, 1600, TRUE).player1Change
    /\ Val(eloResult).player1Change
          > calculateEloChange(2000, 1600, TRUE).player1Change

(* C15: calculateMatchWins(matches, userId) is the number of entries whose *)
(* winner is userId: 0 for the empty list, no entry with a null winner is  *)
(* counted, at most the length of the list, and the same for every         *)
(* permutation of the list.                                                *)
C15_CountsWinsOfUser ==
    winsResult # Null =>
        LET ms == winsArgs.matches
            u == winsArgs.userId
            n == Val(winsResult)
            idx == 1..Len(ms)
        IN  /\ n = Cardinality({i \in idx : ms[i].winner = Some(u)})
            /\ (ms = << >> => n = 0)
            /\ n <= Cardinality({i \in idx : ms[i].winner # Null})
            /\ n <= Len(ms)
            /\ \A p \in Permutations(idx) :
                  calculateMatchWins([i \in idx |-> ms[p[i]]], u) = n

C15_MixedList ==
    /\ winsResult # Null
    /\ Len(winsArgs.matches) = MaxWinsLen
    /\ Val(winsResult) = 2
    /\ \E i \in 1..MaxWinsLen : winsArgs.matches[i].winner = Null
    /\ \E i \in 1..MaxWinsLen :
          winsArgs.matches[i].winner \notin {Null, Some(winsArgs.userId)}

C18_StaleTokenNeverReturned ==
    [][ /\ (lastReply' # lastReply /\ lastReply'.route = "token"
               /\ lastReply'.status = 200 /\ chReqs' = chReqs)
              => /\ provider' = provider
                 /\ \E u \in DOMAIN connections :
                       /\ connections[u] # Null
                       /\ Val(connections[u]).accessToken = lastReply'.accessToken
                       /\ Val(connections[u]).expiresAt > clock + RefreshMargin
        /\ \A r \in ChSlots :
              (chReqs[r].pc = "idle" /\ chReqs'[r].pc = "refresh")
                 => chReqs'[r].connection.expiresAt <= clock + RefreshMargin
        /\ \A r \in ChSlots :
              (chReqs[r].route = "token" /\ chReqs[r].pc \in {"refresh", "update"}
                 /\ chReqs'[r].pc = "done" /\ lastReply'.status = 200)
                 => /\ lastReply'.accessToken # chReqs[r].connection.accessToken
                    /\ chReqs[r].pc = "update"
                    /\ lastReply'.accessToken = chReqs[r].tokenData.accessToken
                    /\ connections'[chReqs[r].sub] # Null
                    /\ Val(connections'[chReqs[r].sub]).accessToken
                          = lastReply'.accessToken
      ]_vars

(* C19, as stated: POST /callback stores tokens only for the authenticated *)
(* caller and only when the state's userId is the caller's id; a request   *)
(* whose state names another user is answered 403 and one whose state      *)
(* cannot be decoded 400, and neither contacts the provider nor creates or *)
(* updates a connection.                                                   *)
C19_StateChecked ==
    [][ /\ \A t \in DOMAIN users, code \in {"", "code"}, st \in StateInputs :
              CallbackStart(t, TRUE, code, st) =>
                 /\ (\E u \in KnownUserIds \ {t} : st = ConnectState(u))
                       => /\ lastReply'.status = 403
                          /\ UNCHANGED <<connections, provider, chReqs>>
                 /\ st.kind \in {"undefined", "garbage", "null"}
                       => /\ lastReply'.status = 400
                          /\ UNCHANGED <<connections, provider, chReqs>>
        /\ \A r \in ChSlots :
              chReqs'[r].route = "callback"
                 => /\ chReqs'[r].sub # "none"
                    /\ chReqs'[r].stateUserId = chReqs'[r].sub
        /\ \A u \in DOMAIN connections :
              connections'[u] # connections[u] =>
                 \E r \in ChSlots :
                    /\ chReqs[r].pc \in {"store", "update"}
                    /\ chReqs'[r].pc = "done"
                    /\ chReqs[r].sub = u
      ]_vars

(* C19, amended: the same for requests that carry an authorization code;   *)
(* a request without a code is answered 400 before its state is looked at, *)
(* also when the state names another user.                                 *)
C19_StateCheckedGivenCode ==
    [][ /\ \A t \in DOMAIN users, code \in {"code"}, st \in StateInputs :
              CallbackStart(t, TRUE, code, st) =>
                 /\ (\E u \in KnownUserIds \ {t} : st = ConnectState(u))
                       => /\ lastReply'.status = 403
                          /\ UNCHANGED <<connections, provider, chReqs>>
                 /\ st.kind \in {"undefined", "garbage", "null"}
                       => /\ lastReply'.status = 400
                          /\ UNCHANGED <<connections, provider, chReqs>>
        /\ \A r \in ChSlots :
              chReqs'[r].route = "callback"
                 => /\ chReqs'[r].sub # "none"
                    /\ chReqs'[r].stateUserId = chReqs'[r].sub
        /\ \A u \in DOMAIN connections :
              connections'[u] # connections[u] =>
                 \E r \in ChSlots :
                    /\ chReqs[r].pc \in {"store", "update"}
                    /\ chReqs'[r].pc = "done"
                    /\ chReqs[r].sub = u
      ]_vars

C19_OtherUsersStateRejected ==
    /\ lastReply = Sent("callback", Reply(403, "State mismatch - invalid user"))
    /\ connections[UserId(2)] # Null
    /\ provider.exchanges = 2

(* C20: every user the public leaderboard returns has played at least one *)
(* match: each entry of a 200 reply has totalMatches >= 1, and a user      *)
(* whose only matches are not completed is not listed.                     *)
C20_ListedUsersHavePlayed ==
    (lastReply.route = "leaderboard" /\ lastReply.status = 200) =>
        \A i \in DOMAIN lastReply.leaderboard :
            LET entry == lastReply.leaderboard[i]
            IN  /\ entry.totalMatches >= 1
                /\ \E m \in DOMAIN matches :
                      entry.id \in Players(m) /\ Completed(m)

(* C21: the complete handler of api/routes/matches.ts updates the match   *)
(* and both ratings atomically: once its updates have run, also when one   *)
(* of them failed, a match is marked completed exactly when both of its    *)
(* rating updates were applied, and no rating update was applied for a     *)
(* match that is not completed.                                            *)
C21_ApiCompletionAtomic ==
    \A m \in DOMAIN matches :
        (\A r \in Slots : ~(reqs[r].pc = "apiUserUpdates" /\ reqs[r].matchId = m))
           => /\ writeLog[m].elo = 2 * writeLog[m].match
              /\ Completed(m) <=> writeLog[m].elo > 0

(* The ratings after match m, decided as recorded, is completed on the    *)
(* ratings elos (user id -> rating) with nothing else running.             *)
CompletedSerially(elos, m) ==
    LET p1 == matches[m].player1Id
        p2 == matches[m].player2Id
        res == calculateEloChange(elos[p1], elos[p2], matches[m].winner = Some(p1))
    IN  [u \in DOMAIN elos |->
           IF u = p1 THEN res.player1NewElo
           ELSE IF u = p2 THEN res.player2NewElo
           ELSE elos[u]]

(* C22: when two matches that share a player have both been completed,    *)
(* each by one committed completion, the stored ratings are those of       *)
(* completing the two matches one after the other in one of the two        *)
(* orders, starting from the ratings of new users.                         *)
C22_SerialRatings ==
    LET m1 == MatchId(1)
        m2 == MatchId(2)
        start == [u \in DOMAIN users |-> EloColumnDefault]
        now == [u \in DOMAIN users |-> users[u].elo]
    IN  (/\ DOMAIN matches = {m1, m2}
         /\ Completed(m1) /\ Completed(m2)
         /\ writeLog[m1].match = 1 /\ writeLog[m2].match = 1)
           => \/ now = CompletedSerially(CompletedSerially(start, m1), m2)
              \/ now = CompletedSerially(CompletedSerially(start, m2), m1)

(* C23: once a match has its winner, its two rating changes and its       *)
(* completion time, no step changes any of these four columns.             *)
C23_CompletedColumnsFrozen ==
    [][\A m \in DOMAIN matches :
          Completed(m) =>
             /\ matches'[m].winner = matches[m].winner
             /\ matches'[m].player1EloChange = matches[m].player1EloChange
             /\ matches'[m].player2EloChange = matches[m].player2EloChange
             /\ matches'[m].completedAt = matches[m].completedAt]_vars

(* C24: a step in which the complete handler answers 400, 404 or 500      *)
(* leaves users and matches as they were, and the answering request is not *)
(* one whose transaction has committed.                                     *)
C24_ErrorReplyMeansNoWrite ==
    [][(/\ lastReply' # lastReply
        /\ lastReply'.route = "complete"
        /\ lastReply'.status \in {400, 404, 500})
          => /\ users' = users
             /\ matches' = matches
             /\ \A r \in Slots :
                   reqs[r].pc = "finalFetch" => reqs'[r].pc = "finalFetch"]_vars

(* C25: in a step that completes a match, each player's stored rating     *)
(* after the step is the rating before the step plus the change the step   *)
(* records for that player on the match.                                   *)
C25_RatingMovesByRecordedChange ==
    [][\A m \in DOMAIN matches :
          (m \in DOMAIN matches' /\ matches'[m] # matches[m]
             /\ matches'[m].completedAt # Null)
            => LET p1 == matches[m].player1Id
                   p2 == matches[m].player2Id
               IN  /\ users'[p1].elo
                         = users[p1].elo + Val(matches'[m].player1EloChange)
                   /\ users'[p2].elo
                         = users[p2].elo + Val(matches'[m].player2EloChange)]_vars

(* C26: for both outcomes the change calculateEloChange returns for the   *)
(* winner is between 0 and K_FACTOR and the change it returns for the      *)
(* loser is between -K_FACTOR and 0.                                       *)
C26_ChangesWithinK ==
    eloResult # Null =>
        LET res == Val(eloResult)
            winnerChange == IF eloArgs.player1Won THEN res.player1Change
                                                  ELSE res.player2Change
            loserChange == IF eloArgs.player1Won THEN res.player2Change
                                                 ELSE res.player1Change
        IN  /\ winnerChange \in 0..K_FACTOR
            /\ loserChange \in (-K_FACTOR)..0

(* An upset at the largest sampled rating difference: both changes at the  *)
(* limit K_FACTOR.                                                          *)
C26_FullSwing ==
    /\ eloResult # Null
    /\ ~eloArgs.player1Won
    /\ Val(eloResult).player2Change = K_FACTOR
    /\ Val(eloResult).player1Change = -K_FACTOR

(* C27: getCachedParticipants returns a list only for an entry stored at  *)
(* most CACHE_TTL earlier, and then that entry's list; for an older entry  *)
(* it returns null and deletes the entry.  A lookup goes on to query        *)
(* Challonge exactly when it got null; an entry is only ever written by     *)
(* setCachedParticipants with the time of the write; and after              *)
(* invalidateParticipantsCache a lookup gets null.                          *)
C27_CacheServesFreshEntries ==
    [][\A t \in TournamentIds :
          LET got == getCachedParticipants(participantsCache, t, clock)
              entry == participantsCache[t]
              started == {q \in BagToSet(paReqs') :
                            /\ CopiesIn(q, paReqs') > CopiesIn(q, paReqs)
                            /\ BagCardinality(paReqs') > BagCardinality(paReqs)}
              invalidating == {q \in PaInFlight :
                                  /\ q.pc = "invalidate"
                                  /\ CopiesIn(q, paReqs') < CopiesIn(q, paReqs)}
          IN  /\ got.result # Null
                   => /\ entry # Null
                      /\ clock - Val(entry).timestamp <= CACHE_TTL
                      /\ got.result = Some(Val(entry).data)
                      /\ got.cache = participantsCache
              /\ (entry # Null /\ clock - Val(entry).timestamp > CACHE_TTL)
                   => got.result = Null /\ got.cache[t] = Null
              /\ \A q \in started :
                    /\ participantsCache' = got.cache
                    /\ q.pc = "fetch" <=> got.result = Null
              /\ (participantsCache'[t] # entry /\ participantsCache'[t] # Null)
                   => /\ Val(participantsCache'[t]).timestamp = clock
                      /\ \E q \in PaInFlight :
                            /\ q.pc = "store"
                            /\ q.participants
                                  = Some(Val(participantsCache'[t]).data)
              /\ invalidating # {}
                   => getCachedParticipants(participantsCache', t, clock').result
                         = Null]_vars

(* A lookup has found an entry older than CACHE_TTL, deleted it and gone on *)
(* to query Challonge.                                                      *)
C27_ExpiredEntryDropped ==
    \E t \in TournamentIds :
        /\ roster[t].expired > 0
        /\ participantsCache[t] = Null
        /\ \E q \in PaInFlight : q.pc = "fetch" /\ q.tournamentId = t

(* C28: once a join or leave has run invalidateParticipantsCache, a lookup *)
(* never gets from the cache a list that Challonge sent before that join   *)
(* or leave was accepted.                                                   *)
C28_NoListFromBeforeInvalidation ==
    \A t \in TournamentIds :
        LET got == getCachedParticipants(participantsCache, t, clock)
        IN  got.result # Null
               => Val(got.result).version >= roster[t].invalidated

(* C29: /disconnect neither replies nor changes the table in its revoke   *)
(* step and goes on to the delete whatever the revoke call did; the delete *)
(* step answers 200 exactly when it removes the caller's connection, and   *)
(* /status then reports connected = false; a caller without a connection   *)
(* is answered 404 and the revoke endpoint is only called by a request      *)
(* that found a connection.                                                 *)
C29_DisconnectIgnoresRevoke ==
    [][/\ \A r \in ChSlots :
            /\ (chReqs[r].pc = "revoke" /\ chReqs'[r] # chReqs[r])
                 => /\ chReqs'[r].pc = "delete"
                    /\ lastReply' = lastReply
                    /\ connections' = connections
            /\ (chReqs[r].pc = "delete" /\ chReqs'[r] # chReqs[r])
                 => LET u == chReqs[r].sub
                    IN  IF connections[u] # Null /\ connections'[u] = Null
                        THEN /\ lastReply' = Sent("disconnect",
                                     Reply(200, "Challonge connection removed"))
                             /\ ~StatusReply(u, connections', clock').connected
                        ELSE /\ lastReply'.status = 500
                             /\ connections' = connections
       /\ provider'.revokes # provider.revokes
            => \E r \in ChSlots :
                  /\ chReqs[r].pc = "revoke"
                  /\ chReqs[r].connection # NoConnection
       /\ (lastReply' # lastReply /\ lastReply'.route = "disconnect")
            => /\ \A u \in KnownUserIds :
                     connections[u] = Null
                        => DisconnectRejection(u, TRUE)
                              = Reply(404, "No Challonge connection found")
               /\ lastReply'.status = 404
                    => provider' = provider /\ connections' = connections
      ]_vars

(* A disconnect whose revoke call threw has removed the connection and      *)
(* been answered 200.                                                       *)
C29_DisconnectedAfterFailedRevoke ==
    /\ lastReply = Sent("disconnect", Reply(200, "Challonge connection removed"))
    /\ \E r \in ChSlots :
          /\ chReqs[r].pc = "done"
          /\ chReqs[r].route = "disconnect"
          /\ chReqs[r].revoke = "throws"
          /\ connections[chReqs[r].sub] = Null

(* C30: a registration whose normalized email or username is held by a    *)
(* user, at its check or at its insert, creates no user and is answered    *)
(* 409 "Email or username already exists"; and no two users ever share an  *)
(* email or a username.                                                    *)
C30_DuplicateRegistrationRejected ==
    [][/\ \A r \in Slots :
            (/\ reqs[r].pc = "register"
             /\ reqs'[r].pc # "register"
             /\ ExistingUser(reqs[r].email, reqs[r].username))
               => /\ users' = users
                  /\ lastReply' = Sent("register",
                         Reply(409, "Email or username already exists"))
       /\ (lastReply' # lastReply /\ lastReply'.route = "register")
            => \A e \in EmailInputs, n \in UsernameInputs :
                  (/\ isValidEmail(e) /\ isValidUsername(n)
                   /\ ExistingUser(NormalizeEmail(e), NormalizeUsername(n)))
                     => RegisterRejection(e, n, "h1", TRUE)
                           = Reply(409, "Email or username already exists")
       /\ \A u, v \in DOMAIN users' :
            u # v => /\ users'[u].email # users'[v].email
                     /\ users'[u].username # users'[v].username]_vars

====
